---- MODULE Spec2Model ----
(***************************************************************************)
(* Crawl orchestration engine of agentic_ai_scraper_crawler:               *)
(*   AsyncWebScraper.scrape_with_pagination / _extract_from_links / scrape *)
(*   (async_web_crawler.py), process_llm_extracted_data,                   *)
(*   _is_valid_extracted_item, check_no_results_llm (llm_extraction.py),   *)
(*   BaseScraper.detect_content_type (base_scraper.py).                    *)
(*                                                                         *)
(* Python strings are modelled as sequences of one-character strings, so   *)
(* that lower(), "in" and startswith() are computed, not assumed.  Python  *)
(* values (JSON values, Optional fields) are tagged records, field t being *)
(* the Python type.                                                        *)
(*                                                                         *)
(* Three specifications: Spec is a pagination run of one scraper (with its *)
(* deep-link expansion); FairSpec is Spec with the fairness of the event   *)
(* loop, for termination; FnSpec calls the validator, the no-results       *)
(* detector, the page URL, the content-type detector and scrape on their   *)
(* own, on a wider range of arguments than a run of Spec meets.            *)
(***************************************************************************)
EXTENDS Integers, Sequences, FiniteSets, TLC

(***************************************************************************)
(* Bounds of the model.                                                    *)
(***************************************************************************)
MaxPages == 2          \* max_pages ranges over -1..MaxPages
MaxLinks == 2          \* max_links_per_page ranges over 0..MaxLinks
MaxEntries == 2        \* a JSON list payload has up to MaxEntries entries
MaxPageNumber == 12    \* page numbers range over 1..MaxPageNumber

(***************************************************************************)
(* Strings.                                                                *)
(***************************************************************************)
\* the lower-case letter of each upper-case letter
UpperToLower ==
    [A |-> "a", B |-> "b", C |-> "c", D |-> "d", E |-> "e", F |-> "f",
     G |-> "g", H |-> "h", I |-> "i", J |-> "j", K |-> "k", L |-> "l",
     M |-> "m", N |-> "n", O |-> "o", P |-> "p", Q |-> "q", R |-> "r",
     S |-> "s", T |-> "t", U |-> "u", V |-> "v", W |-> "w", X |-> "x",
     Y |-> "y", Z |-> "z"]
Digits == <<"0","1","2","3","4","5","6","7","8","9">>

\* str.lower() on one character (ASCII)
LowerChar(c) == IF c \in DOMAIN UpperToLower THEN UpperToLower[c] ELSE c

\* str.lower()
Lower(s) == [i \in 1..Len(s) |-> LowerChar(s[i])]

\* sub in s
Contains(s, sub) ==
    \E i \in 0..(Len(s) - Len(sub)) : SubSeq(s, i + 1, i + Len(sub)) = sub

\* s.startswith(p)
StartsWith(s, p) == Len(s) >= Len(p) /\ SubSeq(s, 1, Len(p)) = p

\* str(n) for an int n >= 0
RECURSIVE IntToStr(_)
IntToStr(n) ==
    IF n < 10 THEN <<Digits[n + 1]>>
    ELSE IntToStr(n \div 10) \o <<Digits[(n % 10) + 1]>>

\* "No Results Found"
Ind1 == <<"N","o"," ","R","e","s","u","l","t","s"," ","F","o","u","n","d">>
\* "No results"
Ind2 == <<"N","o"," ","r","e","s","u","l","t","s">>
\* "Nothing found"
Ind3 == <<"N","o","t","h","i","n","g"," ","f","o","u","n","d">>
\* "0 results"
Ind4 == <<"0"," ","r","e","s","u","l","t","s">>
\* "No matches"
Ind5 == <<"N","o"," ","m","a","t","c","h","e","s">>
\* "No items found"
Ind6 == <<"N","o"," ","i","t","e","m","s"," ","f","o","u","n","d">>
\* "Empty results"
Ind7 == <<"E","m","p","t","y"," ","r","e","s","u","l","t","s">>
\* "No data available"
Ind8 == <<"N","o"," ","d","a","t","a"," ","a","v","a","i","l","a","b","l","e">>

\* the default no_results_indicators
DefaultIndicators == <<Ind1, Ind2, Ind3, Ind4, Ind5, Ind6, Ind7, Ind8>>

QMark == <<"?">>
AmpPage == <<"&","p","a","g","e","=">>
QPage == <<"?","p","a","g","e","=">>
Http == <<"h","t","t","p",":","/","/">>
Https == <<"h","t","t","p","s",":","/","/">>
ProductMarker == <<"/","p","r","o","d","u","c","t","/">>
ArticleMarker == <<"/","a","r","t","i","c","l","e","/">>
\* "Error: "
ErrPrefix == <<"E","r","r","o","r",":"," ">>
\* "Failed to scrape "
FailedPrefix == <<"F","a","i","l","e","d"," ","t","o"," ","s","c","r","a","p","e"," ">>
ColonSp == <<":"," ">>
\* "Error: Crawler not initialized"
NotInitTitle == <<"E","r","r","o","r",":"," ","C","r","a","w","l","e","r"," ","n","o","t"," ",
                  "i","n","i","t","i","a","l","i","z","e","d">>
\* "Crawler must be used within an async context manager"
NotInitDesc == <<"C","r","a","w","l","e","r"," ","m","u","s","t"," ","b","e"," ","u","s","e","d"," ",
                 "w","i","t","h","i","n"," ","a","n"," ","a","s","y","n","c"," ","c","o","n","t","e","x","t"," ",
                 "m","a","n","a","g","e","r">>
\* "An error occurred during scraping"
ErrDesc == <<"A","n"," ","e","r","r","o","r"," ","o","c","c","u","r","r","e","d"," ",
             "d","u","r","i","n","g"," ","s","c","r","a","p","i","n","g">>
\* "No title found"
NoTitle == <<"N","o"," ","t","i","t","l","e"," ","f","o","u","n","d">>

(***************************************************************************)
(* Python values.                                                          *)
(***************************************************************************)
PyNone == [t |-> "null"]
PyStr(s) == [t |-> "str", s |-> s]
PyBool(b) == [t |-> "bool", b |-> b]
PyInt(n) == [t |-> "int", n |-> n]
PyList(l) == [t |-> "list", l |-> l]
PyDict(d) == [t |-> "dict", d |-> d]

\* bool(v)
Truthy(v) ==
    CASE v.t = "null" -> FALSE
      [] v.t = "str"  -> v.s # <<>>
      [] v.t = "bool" -> v.b
      [] v.t = "int"  -> v.n # 0
      [] v.t = "list" -> v.l # <<>>
      [] v.t = "dict" -> DOMAIN v.d # {}
      [] OTHER -> TRUE

\* dict.get(key) (None when the key is absent); item is a dict value
Get(item, key) == IF key \in DOMAIN item.d THEN item.d[key] ELSE PyNone

\* dict.pop(key, None) for its effect on the dict
Pop(item, key) == PyDict([k \in (DOMAIN item.d) \ {key} |-> item.d[k]])

\* d[key] = v on a dict value
SetKey(item, key, v) ==
    PyDict([k \in (DOMAIN item.d) \cup {key} |-> IF k = key THEN v ELSE item.d[k]])

\* the characters of str(v); only a str or an int can give a text that
\* starts with a letter
StrOf(v) ==
    CASE v.t = "str" -> v.s
      [] v.t = "int" /\ v.n >= 0 -> IntToStr(v.n)
      [] v.t = "null" -> <<"N","o","n","e">>
      [] v.t = "bool" -> IF v.b THEN <<"T","r","u","e">> ELSE <<"F","a","l","s","e">>
      [] v.t = "list" -> <<"[","]">>
      [] OTHER -> <<"{","}">>

(***************************************************************************)
(* Exceptions.  An operator that can raise returns a record whose field    *)
(* exc tells whether it raised (msg is str(e)) or returned (val).  Every   *)
(* handler of the modelled code is "except Exception", and only exceptions *)
(* of class Exception are modelled.  Frames: "validate" is the try of      *)
(* process_llm_extracted_data, "scrape" the try of scrape, "link" the try  *)
(* around one link in _extract_from_links, "page" the try around one page  *)
(* in scrape_with_pagination.                                              *)
(***************************************************************************)
Raise(msg) == [exc |-> TRUE, msg |-> msg, val |-> PyNone]
Return(v) == [exc |-> FALSE, msg |-> <<>>, val |-> v]

Frames == {"validate", "scrape", "link", "page"}

\* faulty variant: the handlers name an exception type the failure does not have
CatchesNothing(frame) == FALSE

\* does the except clause of the frame catch an Exception
Catches(frame) == frame \in Frames

(***************************************************************************)
(* llm_extraction.py                                                       *)
(***************************************************************************)
ContentTypes == {"article", "product", "listing", "profile", "unknown"}
NoTag == "None"     \* content_type = None

\* faulty variant: the caller's phrases are added to the default ones
check_no_results_extending(content, no_results_indicators) ==
    LET indicators == IF ~Truthy(no_results_indicators)
                      THEN DefaultIndicators
                      ELSE DefaultIndicators \o no_results_indicators.l
        content_lower == Lower(content)
    IN \E k \in 1..Len(indicators) : Contains(content_lower, Lower(indicators[k]))

\* check_no_results_llm(content, no_results_indicators);
\* no_results_indicators is None or a list of strings
check_no_results_llm(content, no_results_indicators) ==
    LET indicators == IF ~Truthy(no_results_indicators)
                      THEN DefaultIndicators ELSE no_results_indicators.l
        content_lower == Lower(content)
    IN \E k \in 1..Len(indicators) : Contains(content_lower, Lower(indicators[k]))

\* _is_valid_extracted_item(item, content_type)
_is_valid_extracted_item(item, content_type) ==
    CASE content_type = "article" ->
            Truthy(Get(item, "title")) /\ Truthy(Get(item, "content"))
      [] content_type = "product" -> Truthy(Get(item, "name"))
      [] content_type = "profile" ->
            Truthy(Get(item, "name")) \/ Truthy(Get(item, "email"))
                \/ Truthy(Get(item, "phone"))
      [] OTHER ->
            \E field \in {"title", "description", "content", "name"} :
                Truthy(Get(item, field))

\* faulty variant: the error field is removed whenever it is falsy
CleanItemFalsy(item) ==
    IF ~Truthy(Get(item, "error")) THEN Pop(item, "error") ELSE item

\* if item.get("error") is False: item.pop("error", None)
CleanItem(item) ==
    IF Get(item, "error") = PyBool(FALSE) THEN Pop(item, "error") ELSE item

\* faulty variant: the valid entries are collected in reverse order
RECURSIVE ProcessEntriesReversed(_, _)
ProcessEntriesReversed(data, content_type) ==
    IF data = <<>> THEN <<>>
    ELSE LET item == Head(data)
             rest == ProcessEntriesReversed(Tail(data), content_type)
         IN IF item.t = "dict"
            THEN LET cleaned == CleanItem(item)
                 IN IF _is_valid_extracted_item(cleaned, content_type)
                    THEN rest \o <<cleaned>> ELSE rest
            ELSE rest

\* the loop of process_llm_extracted_data over the parsed entries
RECURSIVE ProcessEntries(_, _)
ProcessEntries(data, content_type) ==
    IF data = <<>> THEN <<>>
    ELSE LET item == Head(data)
             rest == ProcessEntries(Tail(data), content_type)
         IN IF item.t = "dict"
            THEN LET cleaned == CleanItem(item)
                 IN IF _is_valid_extracted_item(cleaned, content_type)
                    THEN <<cleaned>> \o rest ELSE rest
            ELSE rest

\* A raw extraction payload is None, or a text given by what json.loads
\* makes of it: [t |-> "text", empty, parsed], parsed.t = "invalid" for a
\* text that is not JSON.
RawText(parsed) == [t |-> "text", empty |-> FALSE, parsed |-> parsed]
EmptyText == [t |-> "text", empty |-> TRUE, parsed |-> [t |-> "invalid"]]
NotJson == RawText([t |-> "invalid"])
RawTruthy(raw) == raw.t = "text" /\ ~raw.empty

\* json.loads(extracted_content)
json_loads(raw) ==
    IF raw.parsed.t = "invalid"
    THEN Raise(<<"J","S","O","N","D","e","c","o","d","e","E","r","r","o","r">>)
    ELSE Return(raw.parsed)

\* the try block of process_llm_extracted_data
ProcessTry(extracted_content, content_type) ==
    IF ~RawTruthy(extracted_content) THEN Return(<<>>)
    ELSE LET parsed == json_loads(extracted_content)
         IN IF parsed.exc THEN parsed
            ELSE IF ~Truthy(parsed.val) THEN Return(<<>>)
            ELSE LET data == IF parsed.val.t = "list"
                             THEN parsed.val.l ELSE <<parsed.val>>
                 IN Return(ProcessEntries(data, content_type))

\* faulty variant: process_llm_extracted_data without its except clauses
process_without_handlers(extracted_content, content_type) ==
    ProcessTry(extracted_content, content_type)

\* process_llm_extracted_data(extracted_content, content_type)
process_llm_extracted_data(extracted_content, content_type) ==
    LET r == ProcessTry(extracted_content, content_type)
    IN IF r.exc /\ Catches("validate") THEN Return(<<>>) ELSE r

\* _get_default_model_and_instruction(content_type): the model's name and
\* the first words of the instruction
_get_default_model_and_instruction(content_type) ==
    CASE content_type = "article" ->
            [model |-> "ArticleModel",
             instruction |-> "Extract article information"]
      [] content_type = "product" ->
            [model |-> "ProductModel",
             instruction |-> "Extract product information"]
      [] content_type = "profile" ->
            [model |-> "ContactModel",
             instruction |-> "Extract contact information"]
      [] OTHER ->
            [model |-> "GenericDataModel",
             instruction |-> "Extract general information"]

NoStrategy == [present |-> FALSE, schema |-> "None", instruction |-> "None"]

\* faulty variant: the strategy is built without looking at GROQ_API_KEY
strategy_for_content_type_unchecked(content_type, api_key) ==
    [present |-> TRUE,
     schema |-> _get_default_model_and_instruction(content_type).model,
     instruction |->
         _get_default_model_and_instruction(content_type).instruction]

\* get_llm_strategy_for_content_type(content_type); api_key is whether
\* GROQ_API_KEY is set
get_llm_strategy_for_content_type(content_type, api_key) ==
    IF ~api_key THEN NoStrategy
    ELSE [present |-> TRUE,
          schema |-> _get_default_model_and_instruction(content_type).model,
          instruction |->
              _get_default_model_and_instruction(content_type).instruction]

\* faulty variant: the generic strategy is built without the key
generic_strategy_unchecked(api_key) ==
    [present |-> TRUE, schema |-> "GenericDataModel",
     instruction |-> "Extract all relevant information"]

\* get_generic_llm_strategy()
get_generic_llm_strategy(api_key) ==
    IF ~api_key THEN NoStrategy
    ELSE [present |-> TRUE, schema |-> "GenericDataModel",
          instruction |-> "Extract all relevant information"]

(***************************************************************************)
(* base_scraper.py                                                         *)
(***************************************************************************)
\* faulty variant: the URL is not lower-cased before the test
detect_content_type_cased(url) ==
    IF Contains(url, ProductMarker) THEN "product"
    ELSE IF Contains(url, ArticleMarker) THEN "article"
    ELSE "unknown"

\* BaseScraper.detect_content_type()
detect_content_type(url) ==
    IF Contains(Lower(url), ProductMarker) THEN "product"
    ELSE IF Contains(Lower(url), ArticleMarker) THEN "article"
    ELSE "unknown"

\* WebContent(url, title, description, content, content_type, structured_data)
WebContent(url, title, description, content, content_type, structured_data) ==
    [url |-> url, title |-> title, description |-> description,
     content |-> content, content_type |-> content_type,
     structured_data |-> structured_data]

(***************************************************************************)
(* AsyncWebScraper.scrape.  resp is what crawler.arun does for this call:  *)
(* [raises, msg] or a result [success, error_message, cleaned_html,        *)
(* extracted_content, metadata].                                           *)
(***************************************************************************)
\* faulty variant: a strategy is chosen whatever use_llm is
SelectStrategyAlways(use_llm, content_type, api_key) ==
    IF content_type # NoTag
    THEN get_llm_strategy_for_content_type(content_type, api_key)
    ELSE get_generic_llm_strategy(api_key)

\* the strategy chosen by scrape
SelectStrategy(use_llm, content_type, api_key) ==
    IF use_llm
    THEN IF content_type # NoTag
         THEN get_llm_strategy_for_content_type(content_type, api_key)
         ELSE get_generic_llm_strategy(api_key)
    ELSE NoStrategy

\* result.metadata.get(key, default)
MetaGet(metadata, key, default) ==
    IF key \in DOMAIN metadata.d THEN metadata.d[key] ELSE default

\* faulty variant: the tag is derived again from the URL of each fetch
ValidityTagDetected(content_type, self_url) ==
    IF content_type # NoTag THEN content_type
    ELSE detect_content_type(self_url)

\* content_type or ContentType.UNKNOWN: the tag scrape gives the validator;
\* the URL being scraped has no part in it
ValidityTag(content_type, self_url) ==
    IF content_type # NoTag THEN content_type ELSE "unknown"

\* the try block of scrape
ScrapeTry(self_url, use_llm, content_type, api_key, resp) ==
    LET llm_strategy == SelectStrategy(use_llm, content_type, api_key)
    IN IF resp.raises THEN Raise(resp.msg)
       ELSE IF ~resp.success
            THEN Raise(FailedPrefix \o self_url \o ColonSp \o resp.error_message)
       ELSE
         LET content == resp.cleaned_html
             tag == ValidityTag(content_type, self_url)
             extracted ==
                 IF llm_strategy.present /\ RawTruthy(resp.extracted_content)
                 THEN process_llm_extracted_data(resp.extracted_content, tag)
                 ELSE Return(<<>>)
         IN IF extracted.exc THEN extracted
            ELSE LET structured_data ==
                         IF extracted.val # <<>>
                         THEN PyList(extracted.val) ELSE PyNone
                     detected_content_type ==
                         IF content_type # NoTag THEN content_type
                         ELSE detect_content_type(self_url)
                 IN Return(WebContent(self_url,
                        MetaGet(resp.metadata, "title", PyStr(NoTitle)),
                        MetaGet(resp.metadata, "description", PyStr(<<>>)),
                        content, detected_content_type, structured_data))

\* faulty variant: scrape without the "if not self.crawler" guard
scrapeUnguarded(self_url, crawler, use_llm, content_type, api_key, resp) ==
    LET r == ScrapeTry(self_url, use_llm, content_type, api_key, resp)
    IN IF r.exc /\ Catches("scrape")
       THEN Return(WebContent(self_url, PyStr(ErrPrefix \o r.msg),
                              PyStr(ErrDesc), PyNone, "unknown", PyNone))
       ELSE r

\* faulty variant: scrape without its except clause
scrapeUncaught(self_url, crawler, use_llm, content_type, api_key, resp) ==
    IF ~crawler
    THEN Return(WebContent(self_url, PyStr(NotInitTitle), PyStr(NotInitDesc),
                           PyNone, "unknown", PyNone))
    ELSE ScrapeTry(self_url, use_llm, content_type, api_key, resp)

\* scrape(use_llm, content_type); crawler is whether self.crawler is set
scrape(self_url, crawler, use_llm, content_type, api_key, resp) ==
    IF ~crawler
    THEN Return(WebContent(self_url, PyStr(NotInitTitle), PyStr(NotInitDesc),
                           PyNone, "unknown", PyNone))
    ELSE LET r == ScrapeTry(self_url, use_llm, content_type, api_key, resp)
         IN IF r.exc /\ Catches("scrape")
            THEN Return(WebContent(self_url, PyStr(ErrPrefix \o r.msg),
                                   PyStr(ErrDesc), PyNone, "unknown", PyNone))
            ELSE r

(***************************************************************************)
(* AsyncWebScraper._extract_from_links: the computation between two link   *)
(* fetches.                                                                *)
(***************************************************************************)
\* enhanced_item = item.copy(); enhanced_item['extracted_from_links'] = []
EnhancedItem(item) == SetKey(item, "extracted_from_links", PyList(<<>>))

\* faulty variant: enhanced_item is the input item itself, not a copy
ItemsAliased(items, idx, eitem) == [items EXCEPT ![idx] = eitem]

\* the input list after a write to enhanced_item, the copy of items[idx]:
\* item.copy() gave a dict of its own, so the write does not reach the input
ItemsAfterWrite(items, idx, eitem) == items

\* the links list located in an item: structured_data[0].links, else links
ItemLinks(item) ==
    LET sd == Get(item, "structured_data")
        nested ==
            IF sd.t = "list" /\ Len(sd.l) > 0
            THEN LET first_item == sd.l[1]
                 IN IF first_item.t = "dict" /\ "links" \in DOMAIN first_item.d
                       /\ first_item.d["links"].t = "list"
                    THEN first_item.d["links"].l ELSE <<>>
            ELSE <<>>
    IN IF nested # <<>> THEN nested
       ELSE IF "links" \in DOMAIN item.d /\ item.d["links"].t = "list"
            THEN item.d["links"].l ELSE <<>>

\* [str(link) for link in links if link and str(link).startswith(...)]
RECURSIVE FilterLinks(_)
FilterLinks(links) ==
    IF links = <<>> THEN <<>>
    ELSE LET link == Head(links)
             rest == FilterLinks(Tail(links))
         IN IF Truthy(link)
               /\ (StartsWith(StrOf(link), Http) \/ StartsWith(StrOf(link), Https))
            THEN <<StrOf(link)>> \o rest ELSE rest

\* faulty variant: repeated links are kept
UniqueLinksKeepsRepeats(links, seen_links) == links

\* the seen_links / unique_links loop
RECURSIVE UniqueLinks(_, _)
UniqueLinks(links, seen_links) ==
    IF links = <<>> THEN <<>>
    ELSE IF Head(links) \in seen_links
         THEN UniqueLinks(Tail(links), seen_links)
         ELSE <<Head(links)>> \o UniqueLinks(Tail(links), seen_links \cup {Head(links)})

\* faulty variant: the last max_links_per_page links are taken
LinksToFollowFromEnd(item, max_links_per_page) ==
    LET unique_links == UniqueLinks(FilterLinks(ItemLinks(item)), {})
    IN SubSeq(unique_links,
              IF Len(unique_links) < max_links_per_page
              THEN 1 ELSE Len(unique_links) - max_links_per_page + 1,
              Len(unique_links))

\* unique_links[:max_links_per_page], max_links_per_page > 0
LinksToFollow(item, max_links_per_page) ==
    LET unique_links == UniqueLinks(FilterLinks(ItemLinks(item)), {})
    IN SubSeq(unique_links, 1,
              IF Len(unique_links) < max_links_per_page
              THEN Len(unique_links) ELSE max_links_per_page)

\* faulty variant: seen_links is kept from one item of the page to the next
RECURSIVE NextItemSeenAcrossItems(_, _, _, _)
NextItemSeenAcrossItems(items, idx, enhanced_items, max_links_per_page) ==
    IF idx > Len(items)
    THEN [idx |-> idx, enhanced_items |-> enhanced_items, links |-> <<>>]
    ELSE LET seen_links ==
                 UNION {{FilterLinks(ItemLinks(items[k]))[i] :
                            i \in 1..Len(FilterLinks(ItemLinks(items[k])))} :
                        k \in 1..(idx - 1)}
             unique_links ==
                 UniqueLinks(FilterLinks(ItemLinks(items[idx])), seen_links)
             links == SubSeq(unique_links, 1,
                             IF Len(unique_links) < max_links_per_page
                             THEN Len(unique_links) ELSE max_links_per_page)
         IN IF links = <<>>
            THEN NextItemSeenAcrossItems(items, idx + 1,
                                         Append(enhanced_items,
                                                EnhancedItem(items[idx])),
                                         max_links_per_page)
            ELSE [idx |-> idx, enhanced_items |-> enhanced_items, links |-> links]

\* faulty variant: an item without a link to follow is appended as it is
RECURSIVE NextItemPassesThrough(_, _, _, _)
NextItemPassesThrough(items, idx, enhanced_items, max_links_per_page) ==
    IF idx > Len(items)
    THEN [idx |-> idx, enhanced_items |-> enhanced_items, links |-> <<>>]
    ELSE LET links == LinksToFollow(items[idx], max_links_per_page)
         IN IF links = <<>>
            THEN NextItemPassesThrough(items, idx + 1,
                                       Append(enhanced_items, items[idx]),
                                       max_links_per_page)
            ELSE [idx |-> idx, enhanced_items |-> enhanced_items, links |-> links]

\* the items loop from item number idx up to the first item that has a
\* link to follow: the items before it are appended with an empty
\* extracted_from_links
RECURSIVE NextItem(_, _, _, _)
NextItem(items, idx, enhanced_items, max_links_per_page) ==
    IF idx > Len(items)
    THEN [idx |-> idx, enhanced_items |-> enhanced_items, links |-> <<>>]
    ELSE LET links == LinksToFollow(items[idx], max_links_per_page)
         IN IF links = <<>>
            THEN NextItem(items, idx + 1,
                          Append(enhanced_items, EnhancedItem(items[idx])),
                          max_links_per_page)
            ELSE [idx |-> idx, enhanced_items |-> enhanced_items, links |-> links]

\* link_data of one followed link
LinkData(link, link_content) ==
    PyDict([url |-> PyStr(link),
            title |-> link_content.title,
            description |-> link_content.description,
            content_length |-> PyInt(IF Truthy(link_content.content)
                                     THEN Len(link_content.content.s) ELSE 0),
            structured_data |-> link_content.structured_data])

\* enhanced_item['extracted_from_links'].append(link_data)
AppendLinkData(enhanced_item, link_data) ==
    SetKey(enhanced_item, "extracted_from_links",
           PyList(Append(enhanced_item.d["extracted_from_links"].l, link_data)))

(***************************************************************************)
(* AsyncWebScraper.scrape_with_pagination: the computation of one page.    *)
(***************************************************************************)
\* faulty variant: "?page=" is appended whatever the base URL contains
PageUrlAlwaysQuery(base, n) == base \o QPage \o IntToStr(n)

\* the URL of a page
PageUrl(base, n) ==
    IF Contains(base, QMark)
    THEN base \o AmpPage \o IntToStr(n)
    ELSE base \o QPage \o IntToStr(n)

\* faulty variant: the finally clause is missing
RestoreUrlMissing(original, current) == current

\* finally: self.url = original_url
RestoreUrl(original, current) == original

\* faulty variant: the link's URL is left in self.url
RestoreLinkUrlMissing(original, current) == current

\* self.url = original_url after a link, on success and in the except clause
RestoreLinkUrl(original, current) == original

\* faulty variant: the page's items replace the aggregate
ExtendReplacing(all, page_items) == page_items

\* all_items.extend(page_items)
Extend(all, page_items) == all \o page_items

\* faulty variant: links are followed whether follow_links is set or not
PageDecisionIgnoresFollow(r, llm, follow, max_links) ==
    IF r.exc THEN [next |-> IF Catches("page") THEN "break" ELSE "raise",
                   reason |-> "fetch_error", page_items |-> <<>>]
    ELSE LET content == r.val
         IN IF Truthy(content.content)
               /\ check_no_results_llm(content.content.s, PyNone)
            THEN [next |-> "break", reason |-> "no_results_detected",
                  page_items |-> <<>>]
            ELSE IF Truthy(content.structured_data)
            THEN [next |-> IF max_links > 0 THEN "expand" ELSE "extend",
                  reason |-> "none", page_items |-> content.structured_data.l]
            ELSE IF llm
            THEN [next |-> "break", reason |-> "empty_page", page_items |-> <<>>]
            ELSE [next |-> "continue", reason |-> "none", page_items |-> <<>>]

\* faulty variant: an empty page never stops the run
PageDecisionNoEmptyStop(r, llm, follow, max_links) ==
    IF r.exc THEN [next |-> IF Catches("page") THEN "break" ELSE "raise",
                   reason |-> "fetch_error", page_items |-> <<>>]
    ELSE LET content == r.val
         IN IF Truthy(content.content)
               /\ check_no_results_llm(content.content.s, PyNone)
            THEN [next |-> "break", reason |-> "no_results_detected",
                  page_items |-> <<>>]
            ELSE IF Truthy(content.structured_data)
            THEN [next |-> IF follow /\ max_links > 0 THEN "expand" ELSE "extend",
                  reason |-> "none", page_items |-> content.structured_data.l]
            ELSE [next |-> "continue", reason |-> "none", page_items |-> <<>>]

\* faulty variant: the no-results check comes after the page's records are taken
PageDecisionRecordsFirst(r, llm, follow, max_links) ==
    IF r.exc THEN [next |-> IF Catches("page") THEN "break" ELSE "raise",
                   reason |-> "fetch_error", page_items |-> <<>>]
    ELSE LET content == r.val
         IN IF Truthy(content.structured_data)
            THEN [next |-> IF follow /\ max_links > 0 THEN "expand" ELSE "extend",
                  reason |-> "none", page_items |-> content.structured_data.l]
            ELSE IF Truthy(content.content)
                    /\ check_no_results_llm(content.content.s, PyNone)
            THEN [next |-> "break", reason |-> "no_results_detected",
                  page_items |-> <<>>]
            ELSE IF llm
            THEN [next |-> "break", reason |-> "empty_page", page_items |-> <<>>]
            ELSE [next |-> "continue", reason |-> "none", page_items |-> <<>>]

\* faulty variant: an empty page stops the run whatever use_llm is
PageDecisionAlwaysEmptyStop(r, llm, follow, max_links) ==
    IF r.exc THEN [next |-> IF Catches("page") THEN "break" ELSE "raise",
                   reason |-> "fetch_error", page_items |-> <<>>]
    ELSE LET content == r.val
         IN IF Truthy(content.content)
               /\ check_no_results_llm(content.content.s, PyNone)
            THEN [next |-> "break", reason |-> "no_results_detected",
                  page_items |-> <<>>]
            ELSE IF Truthy(content.structured_data)
            THEN [next |-> IF follow /\ max_links > 0 THEN "expand" ELSE "extend",
                  reason |-> "none", page_items |-> content.structured_data.l]
            ELSE [next |-> "break", reason |-> "empty_page", page_items |-> <<>>]

\* What the body of the while loop does with the outcome r of scrape:
\* "raise" (the exception leaves the loop), "break", "continue" (no
\* records: page_number += 1), "extend" (aggregate the records) or "expand"
\* (the link loop of _extract_from_links runs first).  With follow_links
\* set and max_links_per_page <= 0, _extract_from_links returns its input.
PageDecision(r, llm, follow, max_links) ==
    IF r.exc THEN [next |-> IF Catches("page") THEN "break" ELSE "raise",
                   reason |-> "fetch_error", page_items |-> <<>>]
    ELSE LET content == r.val
         IN IF Truthy(content.content)
               /\ check_no_results_llm(content.content.s, PyNone)
            THEN [next |-> "break", reason |-> "no_results_detected",
                  page_items |-> <<>>]
            ELSE IF Truthy(content.structured_data)
            THEN [next |-> IF follow /\ max_links > 0 THEN "expand" ELSE "extend",
                  reason |-> "none", page_items |-> content.structured_data.l]
            ELSE IF llm
            THEN [next |-> "break", reason |-> "empty_page", page_items |-> <<>>]
            ELSE [next |-> "continue", reason |-> "none", page_items |-> <<>>]

(***************************************************************************)
(* Inputs: URLs, page texts, extraction payloads, crawler.arun outcomes.   *)
(***************************************************************************)
\* "https://x.com/list"
UrlList == <<"h","t","t","p","s",":","/","/","x",".","c","o","m","/","l","i","s","t">>
\* "https://x.com/list?cat=a"
UrlCat == <<"h","t","t","p","s",":","/","/","x",".","c","o","m","/","l","i","s","t","?","c","a","t","=","a">>
\* "https://x.com/a"
LinkA == <<"h","t","t","p","s",":","/","/","x",".","c","o","m","/","a">>
\* "http://x.com/product/b"
LinkB == <<"h","t","t","p",":","/","/","x",".","c","o","m","/","p","r","o","d","u","c","t","/","b">>
\* "ftp://x.com/c"
LinkFtp == <<"f","t","p",":","/","/","x",".","c","o","m","/","c">>
\* "3 items"
TxtItems == <<"3"," ","i","t","e","m","s">>
\* "Sorry, NO RESULTS found"
TxtNoRes == <<"S","o","r","r","y",","," ","N","O"," ","R","E","S","U","L","T","S"," ","f","o","u","n","d">>
Boom == <<"b","o","o","m">>
E404 == <<"4","0","4">>

\* {"title": "T", "content": "C", "name": "W",
\*  "links": [null, a, 7, a, ftp, "", b]}
ItemA == PyDict([title |-> PyStr(<<"T">>), content |-> PyStr(<<"C">>),
                 name |-> PyStr(<<"W">>),
                 links |-> PyList(<<PyNone, PyStr(LinkA), PyInt(7), PyStr(LinkA),
                                    PyStr(LinkFtp), PyStr(<<>>), PyStr(LinkB)>>)])
\* {"name": "Widget", "error": false}
ItemB == PyDict([name |-> PyStr(<<"W","i","d","g","e","t">>),
                 error |-> PyBool(FALSE)])
\* {"price": "9.99"}
ItemBad == PyDict([price |-> PyStr(<<"9",".","9","9">>)])

\* {"title": "U", "content": "D", "name": "V", "links": [b, a, b]}
ItemC == PyDict([title |-> PyStr(<<"U">>), content |-> PyStr(<<"D">>),
                 name |-> PyStr(<<"V">>),
                 links |-> PyList(<<PyStr(LinkB), PyStr(LinkA), PyStr(LinkB)>>)])

\* a list of two objects that have their links in common
PayloadShared == RawText(PyList(<<ItemA, ItemC>>))

\* the payloads of a page: None, a text that is not JSON, a list of three
\* objects, a single object
PayloadList == RawText(PyList(<<ItemA, ItemBad, ItemB>>))
PayloadObject == RawText(ItemB)
PagePayloads == {PyNone, NotJson, PayloadList, PayloadObject}

ArunRaises == [raises |-> TRUE, msg |-> Boom]
ArunResult(success, html, payload, metadata) ==
    [raises |-> FALSE, msg |-> <<>>, success |-> success, error_message |-> E404,
     cleaned_html |-> html, extracted_content |-> payload, metadata |-> metadata]
\* metadata without a title: {"description": "D"}
MetaD == PyDict([description |-> PyStr(<<"D">>)])
ArunFails == ArunResult(FALSE, PyNone, PyNone, MetaD)

\* what crawler.arun may do for a page: raise, fail, or succeed with a
\* listing and any payload, with a no-results notice and a list or no
\* payload, or with neither content nor payload
PageResponses ==
    {ArunRaises, ArunFails, ArunResult(TRUE, PyNone, PyNone, MetaD)}
    \cup {ArunResult(TRUE, PyStr(TxtItems), payload, MetaD) :
            payload \in PagePayloads}
    \cup {ArunResult(TRUE, PyStr(TxtNoRes), payload, MetaD) :
            payload \in {PyNone, PayloadList}}

\* "https://x.com/list?cat=a&page=1"
UrlCatFirst == UrlCat \o <<"&","p","a","g","e","=","1">>

\* what crawler.arun may do for the page at url.  The category listing has
\* one page of records, which have their links in common, and a
\* no-results notice on the pages after it; any of its pages may fail.
PageResponsesAt(url) ==
    IF ~StartsWith(url, UrlCat) THEN PageResponses
    ELSE IF url = UrlCatFirst
    THEN {ArunFails, ArunResult(TRUE, PyStr(TxtItems), PayloadShared, MetaD)}
    ELSE {ArunFails, ArunResult(TRUE, PyStr(TxtNoRes), PyNone, MetaD)}

\* what crawler.arun may do for a followed link: raise, or succeed with a
\* listing and a single object
LinkResponses ==
    {ArunRaises,
     ArunResult(TRUE, PyStr(TxtItems), RawText(ItemB),
                PyDict([title |-> PyStr(<<"L">>)]))}

\* the content_type arguments of a run
Tags == {NoTag, "product", "article"}

\* the max_pages arguments of a run: a negative one, zero, and the
\* positive ones up to MaxPages
PageLimits == {0 - 1} \cup (0..MaxPages)

\* the base_url arguments of a run: <<>> is None
BaseUrls == {<<>>, UrlCat}

(***************************************************************************)
(* State.                                                                  *)
(***************************************************************************)
VARIABLES
    pc,                 \* where the caller and the coroutine are
    crawler,            \* self.crawler is set
    api_key,            \* GROQ_API_KEY is set
    self_url,           \* self.url
    base_url, max_pages, use_llm, content_type, follow_links,
    max_links_per_page, \* the arguments of scrape_with_pagination
    page_number, all_items, original_url,   \* locals of scrape_with_pagination
    items, item_idx, enhanced_items, enhanced_item, links_to_follow, link_idx,
    link_original_url,  \* locals of _extract_from_links
    result,             \* what the caller of the run got
    stop_reason,        \* which exit of the while loop was taken
    page_log,           \* per page scraped: the outcome of its scrape
    fetch_log,          \* the calls of scrape and sleep, in order
    fn,                 \* a function called on its own: its name and arguments
    fn_value            \* what that call returned

args == <<base_url, max_pages, use_llm, content_type, follow_links,
          max_links_per_page>>
environment == <<crawler, api_key>>
link_locals == <<items, item_idx, enhanced_items, enhanced_item,
                 links_to_follow, link_idx, link_original_url>>
machine == <<pc, crawler, api_key, self_url, base_url, max_pages, use_llm,
             content_type, follow_links, max_links_per_page, page_number,
             all_items, original_url, items, item_idx, enhanced_items,
             enhanced_item, links_to_follow, link_idx, link_original_url,
             result, stop_reason, page_log, fetch_log>>
direct == <<fn, fn_value>>
vars == <<machine, direct>>

NoResult == [kind |-> "none", value |-> <<>>]
NoCall == [name |-> "none"]
Returned(v) == [kind |-> "returned", value |-> v]
Raised == [kind |-> "raised", value |-> <<>>]

\* AsyncWebScraper(url, config) was constructed; the run's arguments are
\* the ones its caller will pass
Init ==
    /\ pc = "new"
    /\ crawler = FALSE
    /\ api_key \in BOOLEAN
    /\ self_url = UrlList
    /\ base_url \in BaseUrls
    /\ max_pages \in PageLimits
    /\ use_llm \in BOOLEAN
    /\ content_type \in Tags
    /\ follow_links \in BOOLEAN
    /\ max_links_per_page \in 0..MaxLinks
    /\ page_number = 1
    /\ all_items = <<>>
    /\ original_url = <<>>
    /\ items = <<>>
    /\ item_idx = 1
    /\ enhanced_items = <<>>
    /\ enhanced_item = PyNone
    /\ links_to_follow = <<>>
    /\ link_idx = 1
    /\ link_original_url = <<>>
    /\ result = NoResult
    /\ stop_reason = "none"
    /\ page_log = <<>>
    /\ fetch_log = <<>>
    /\ fn = NoCall
    /\ fn_value = NoCall

\* __aenter__: the crawler is created and entered, or the failure (of the
\* constructor, or of the crawler's __aenter__) is raised to the caller of
\* "async with", whose body then does not run
AEnter ==
    /\ pc = "new"
    /\ \E ok \in BOOLEAN :
         IF ok
         THEN /\ crawler' = TRUE
              /\ pc' = "ready"
              /\ UNCHANGED result
         ELSE /\ pc' = "init_failed"
              /\ result' = Raised
              /\ crawler' \in BOOLEAN   \* set if crawler.__aenter__ raised
    /\ UNCHANGED <<api_key, self_url, args, page_number, all_items,
                   original_url, link_locals, stop_reason, page_log, fetch_log,
                   direct>>

\* scrape_with_pagination is called (inside "async with" or not): the
\* statements before the while loop
Call ==
    /\ pc \in {"new", "ready"}
    /\ base_url' = IF base_url = <<>> THEN self_url ELSE base_url
    /\ all_items' = <<>>
    /\ page_number' = 1
    /\ pc' = "loop"
    /\ UNCHANGED <<environment, self_url, max_pages, use_llm, content_type,
                   follow_links, max_links_per_page, original_url, link_locals,
                   result, stop_reason, page_log, fetch_log, direct>>

\* faulty variant: the while test lets one more page through
WhileTestOffByOne(n, limit) == n <= limit + 1

\* the test of the while loop
WhileTest(n, limit) == n <= limit

\* the while test and the statements up to the call of scrape
LoopHead ==
    /\ pc = "loop"
    /\ IF WhileTest(page_number, max_pages)
       THEN /\ original_url' = self_url
            /\ self_url' = PageUrl(base_url, page_number)
            /\ pc' = "page"
            /\ fetch_log' = Append(fetch_log,
                   [kind |-> "page", page |-> page_number,
                    url |-> PageUrl(base_url, page_number)])
            /\ UNCHANGED <<result, stop_reason>>
       ELSE /\ pc' = "done"
            /\ stop_reason' = "max_pages_reached"
            /\ result' = Returned(all_items)
            /\ UNCHANGED <<original_url, self_url, fetch_log>>
    /\ UNCHANGED <<environment, args, page_number, all_items, link_locals,
                   page_log, direct>>

\* what crawler.arun did for a call of scrape: "uninit" when scrape did not
\* call it
Outcome(resp) ==
    IF ~crawler THEN "uninit"
    ELSE IF resp.raises THEN "raised"
    ELSE IF ~resp.success THEN "failed"
    ELSE "ok"

\* what a call of scrape used for extraction: the strategy it put in the
\* config of crawler.arun (none when it did not call arun) and the tag it
\* had for the validator
Extraction ==
    [strategy |-> IF crawler THEN SelectStrategy(use_llm, content_type, api_key)
                  ELSE NoStrategy,
     validity |-> ValidityTag(content_type, self_url)]

\* the content_type of the page scrape returned
Detected(r) == IF r.exc THEN "none" ELSE r.val.content_type

\* the entry of page_log for the page just scraped: what arun did, the
\* content and the payload of its result, the records scrape returned,
\* (filled in when it happens) what was appended to all_items for the page,
\* and whether _extract_from_links was called for the page and returned its
\* input list itself ("input") or a list it built ("new")
PageEntry(resp, r) ==
    [page |-> page_number,
     outcome |-> Outcome(resp),
     content |-> IF Outcome(resp) = "ok" THEN resp.cleaned_html ELSE PyNone,
     payload |-> IF Outcome(resp) = "ok" THEN resp.extracted_content ELSE PyNone,
     records |-> IF ~r.exc /\ Truthy(r.val.structured_data)
                 THEN r.val.structured_data.l ELSE <<>>,
     aggregated |-> <<>>,
     expand |-> "none",
     extraction |-> Extraction,
     detected |-> Detected(r)]

\* scrape returns for the page; the rest of the loop body up to the next
\* suspension, the finally clause included
PageReturn ==
    /\ pc = "page"
    /\ \E resp \in PageResponsesAt(self_url) :
       \E r \in {scrape(self_url, crawler, use_llm, content_type, api_key, resp)} :
       \E d \in {PageDecision(r, use_llm, follow_links, max_links_per_page)} :
       \E first \in {NextItem(d.page_items, 1, <<>>, max_links_per_page)} :
         LET extended == IF d.next = "expand" THEN first.enhanced_items
                         ELSE d.page_items
             called == IF d.next = "expand" THEN "new"
                       ELSE IF d.next = "extend" /\ follow_links THEN "input"
                       ELSE "none"
         IN /\ page_log' = Append(page_log,
                   IF d.next = "extend"
                      \/ (d.next = "expand" /\ first.idx > Len(d.page_items))
                   THEN [PageEntry(resp, r) EXCEPT !.aggregated = extended,
                                                   !.expand = called]
                   ELSE [PageEntry(resp, r) EXCEPT !.expand = called])
            /\ CASE d.next = "raise" ->
                      /\ pc' = "raised"
                      /\ result' = Raised
                      /\ self_url' = RestoreUrl(original_url, self_url)
                      /\ UNCHANGED <<page_number, all_items, link_locals,
                                     stop_reason>>
                 [] d.next = "break" ->
                      /\ pc' = "done"
                      /\ stop_reason' = d.reason
                      /\ result' = Returned(all_items)
                      /\ self_url' = RestoreUrl(original_url, self_url)
                      /\ UNCHANGED <<page_number, all_items, link_locals>>
                 [] d.next = "continue" ->
                      /\ page_number' = page_number + 1
                      /\ pc' = "loop"
                      /\ self_url' = RestoreUrl(original_url, self_url)
                      /\ UNCHANGED <<all_items, link_locals, result, stop_reason>>
                 [] d.next = "extend"
                    \/ (d.next = "expand" /\ first.idx > Len(d.page_items)) ->
                      /\ all_items' = Extend(all_items, extended)
                      /\ page_number' = page_number + 1
                      /\ pc' = "loop"
                      /\ self_url' = RestoreUrl(original_url, self_url)
                      /\ UNCHANGED <<link_locals, result, stop_reason>>
                 [] OTHER ->
                      /\ items' = ItemsAfterWrite(d.page_items, first.idx,
                                    EnhancedItem(d.page_items[first.idx]))
                      /\ item_idx' = first.idx
                      /\ enhanced_items' = first.enhanced_items
                      /\ enhanced_item' = EnhancedItem(d.page_items[first.idx])
                      /\ links_to_follow' = first.links
                      /\ link_idx' = 1
                      /\ pc' = "link"
                      /\ UNCHANGED <<self_url, page_number, all_items,
                                     link_original_url, result, stop_reason>>
    /\ fetch_log' = Append(fetch_log,
           [kind |-> "page_done", page |-> page_number, url |-> self_url])
    /\ UNCHANGED <<environment, args, original_url, direct>>

\* the link loop goes on after one link, enhanced_item being eitem and
\* self.url being url_now: the next link of the item, or the next item that
\* has links, or the return of _extract_from_links and the rest of the
\* page's loop body, the finally clause included
AfterLink(eitem, url_now) ==
    IF link_idx < Len(links_to_follow)
    THEN /\ link_idx' = link_idx + 1
         /\ enhanced_item' = eitem
         /\ pc' = "link"
         /\ self_url' = url_now
         /\ UNCHANGED <<items, item_idx, enhanced_items, links_to_follow,
                        page_number, all_items, page_log>>
    ELSE LET n == NextItem(items, item_idx + 1, Append(enhanced_items, eitem),
                           max_links_per_page)
         IN IF n.idx <= Len(items)
            THEN /\ item_idx' = n.idx
                 /\ enhanced_items' = n.enhanced_items
                 /\ enhanced_item' = EnhancedItem(items[n.idx])
                 /\ links_to_follow' = n.links
                 /\ link_idx' = 1
                 /\ items' = ItemsAfterWrite(items, n.idx,
                                              EnhancedItem(items[n.idx]))
                 /\ pc' = "link"
                 /\ self_url' = url_now
                 /\ UNCHANGED <<page_number, all_items, page_log>>
            ELSE /\ all_items' = Extend(all_items, n.enhanced_items)
                 /\ page_log' = [page_log EXCEPT
                        ![Len(page_log)].aggregated = n.enhanced_items]
                 /\ page_number' = page_number + 1
                 /\ enhanced_items' = n.enhanced_items
                 /\ enhanced_item' = eitem
                 /\ pc' = "loop"
                 /\ self_url' = RestoreUrl(original_url, url_now)
                 /\ UNCHANGED <<items, item_idx, links_to_follow, link_idx>>

\* one link of links_to_follow: self.url is swapped and scrape is called
LinkBegin ==
    /\ pc = "link"
    /\ link_original_url' = self_url
    /\ self_url' = links_to_follow[link_idx]
    /\ pc' = "link_await"
    /\ fetch_log' = Append(fetch_log,
           [kind |-> "link", page |-> page_number, item |-> item_idx,
            url |-> links_to_follow[link_idx],
            aggregate |-> Len(all_items)])
    /\ UNCHANGED <<environment, args, page_number, all_items, original_url,
                   items, item_idx, enhanced_items, enhanced_item,
                   links_to_follow, link_idx, result, stop_reason, page_log,
                   direct>>

\* scrape returns for the link: link_data is appended and self.url
\* restored, or the except clause restores self.url and continues
LinkReturn ==
    /\ pc = "link_await"
    /\ \E resp \in LinkResponses :
       \E r \in {scrape(self_url, crawler, use_llm, content_type, api_key, resp)} :
            /\ fetch_log' = Append(fetch_log,
                   [kind |-> "link_done", page |-> page_number,
                    item |-> item_idx, url |-> self_url,
                    aggregate |-> Len(all_items),
                    outcome |-> Outcome(resp),
                    extraction |-> Extraction,
                    detected |-> Detected(r),
                    url_before |-> link_original_url,
                    url_after |-> RestoreLinkUrl(link_original_url, self_url)])
            /\ IF ~r.exc
               THEN /\ enhanced_item' =
                         AppendLinkData(enhanced_item, LinkData(self_url, r.val))
                    /\ items' = ItemsAfterWrite(items, item_idx,
                             AppendLinkData(enhanced_item,
                                            LinkData(self_url, r.val)))
                    /\ self_url' = RestoreLinkUrl(link_original_url, self_url)
                    /\ pc' = "sleep"
                    /\ UNCHANGED <<page_number, all_items, item_idx,
                                   enhanced_items, links_to_follow, link_idx,
                                   result, stop_reason, page_log>>
               ELSE IF Catches("link")
               THEN /\ AfterLink(enhanced_item,
                                 RestoreLinkUrl(link_original_url, self_url))
                    /\ UNCHANGED <<result, stop_reason>>
               ELSE /\ self_url' = RestoreUrl(original_url, self_url)
                    /\ pc' = IF Catches("page") THEN "done" ELSE "raised"
                    /\ result' = IF Catches("page") THEN Returned(all_items)
                                 ELSE Raised
                    /\ stop_reason' = IF Catches("page") THEN "fetch_error"
                                      ELSE stop_reason
                    /\ UNCHANGED <<page_number, all_items, items, item_idx,
                                   enhanced_items, enhanced_item,
                                   links_to_follow, link_idx, page_log>>
    /\ UNCHANGED <<environment, args, original_url, link_original_url,
                   direct>>

\* the seconds of the pause after a link
PacingDelay == 1

\* asyncio.sleep(1) after a link whose scrape returned
Sleep ==
    /\ pc = "sleep"
    /\ fetch_log' = Append(fetch_log,
           [kind |-> "sleep", page |-> page_number, url |-> <<>>,
            seconds |-> PacingDelay])
    /\ AfterLink(enhanced_item, self_url)
    /\ UNCHANGED <<environment, args, original_url,
                   link_original_url, result, stop_reason, direct>>

Next ==
    \/ AEnter
    \/ Call
    \/ LoopHead
    \/ PageReturn
    \/ LinkBegin
    \/ LinkReturn
    \/ Sleep

Spec == Init /\ [][Next]_vars

\* The run is one coroutine: once called, the event loop resumes it at each
\* of its steps, every awaited scrape returns and every sleep ends.
\* (At most one of the five steps is enabled at a time.)
Resume == LoopHead \/ PageReturn \/ LinkBegin \/ LinkReturn \/ Sleep
Fairness == WF_vars(Resume)

FairSpec == Init /\ [][Next]_vars /\ Fairness

(***************************************************************************)
(* The functions of llm_extraction.py and base_scraper.py, the URL of a    *)
(* page and scrape, each called once on its own with arguments drawn from  *)
(* the sets below.                                                         *)
(***************************************************************************)
\* "https://x.com/list?"
UrlListQ == <<"h","t","t","p","s",":","/","/","x",".","c","o","m","/","l","i","s","t","?">>
\* "https://x.com/q?a=1?b"
UrlTwoQ == <<"h","t","t","p","s",":","/","/","x",".","c","o","m","/","q","?","a","=","1","?","b">>
\* "https://x.com/list?cat=a&page=3"
UrlCatPage3 == <<"h","t","t","p","s",":","/","/","x",".","c","o","m","/","l","i","s","t","?","c","a","t","=","a","&","p","a","g","e","=","3">>
\* "https://x.com/list?page=2"
UrlListPage2 == <<"h","t","t","p","s",":","/","/","x",".","c","o","m","/","l","i","s","t","?","p","a","g","e","=","2">>
\* "https://x.com/product/1"
UrlProduct == <<"h","t","t","p","s",":","/","/","x",".","c","o","m","/","p","r","o","d","u","c","t","/","1">>
\* "https://x.com/product"
UrlProductLast == <<"h","t","t","p","s",":","/","/","x",".","c","o","m","/","p","r","o","d","u","c","t">>
\* "https://x.com/products/1"
UrlProducts == <<"h","t","t","p","s",":","/","/","x",".","c","o","m","/","p","r","o","d","u","c","t","s","/","1">>
\* "https://x.com/a?next=/product/"
UrlProductQuery == <<"h","t","t","p","s",":","/","/","x",".","c","o","m","/","a","?","n","e","x","t","=","/","p","r","o","d","u","c","t","/">>
\* "https://x.com/PRODUCT/1"
UrlProductUpper == <<"h","t","t","p","s",":","/","/","x",".","c","o","m","/","P","R","O","D","U","C","T","/","1">>
\* "https://x.com/article/1"
UrlArticle == <<"h","t","t","p","s",":","/","/","x",".","c","o","m","/","a","r","t","i","c","l","e","/","1">>
\* "https://x.com/blog/article"
UrlArticleLast == <<"h","t","t","p","s",":","/","/","x",".","c","o","m","/","b","l","o","g","/","a","r","t","i","c","l","e">>
\* "https://x.com/article/product/"
UrlBoth == <<"h","t","t","p","s",":","/","/","x",".","c","o","m","/","a","r","t","i","c","l","e","/","p","r","o","d","u","c","t","/">>
\* "https://x.com/list#/article/"
UrlArticleFragment == <<"h","t","t","p","s",":","/","/","x",".","c","o","m","/","l","i","s","t","#","/","a","r","t","i","c","l","e","/">>
\* "https://product/x"
UrlProductHost == <<"h","t","t","p","s",":","/","/","p","r","o","d","u","c","t","/","x">>
\* "NADA here"
TxtNada == <<"N","A","D","A"," ","h","e","r","e">>
\* "0 Results"
TxtZero == <<"0"," ","R","e","s","u","l","t","s">>
\* "nada"
Nada == <<"n","a","d","a">>
\* "B"
PhraseB == <<"B">>

\* {"title": "T"}
ItemTitle == PyDict([title |-> PyStr(<<"T">>)])
\* {"email": "e"}
ItemMail == PyDict([email |-> PyStr(<<"e">>)])
\* {"name": "", "title": null}
ItemNoName == PyDict([name |-> PyStr(<<>>), title |-> PyNone])
\* {"name": "W", "error": "x"}
ItemErrText == PyDict([name |-> PyStr(<<"W">>), error |-> PyStr(<<"x">>)])
\* {"name": "W", "error": 0}
ItemErrZero == PyDict([name |-> PyStr(<<"W">>), error |-> PyInt(0)])
\* {"name": "W", "error": null}
ItemErrNull == PyDict([name |-> PyStr(<<"W">>), error |-> PyNone])
\* {"name": "W", "error": true}
ItemErrTrue == PyDict([name |-> PyStr(<<"W">>), error |-> PyBool(TRUE)])
\* {"title": "T", "content": "C", "error": false}
ItemStory == PyDict([title |-> PyStr(<<"T">>), content |-> PyStr(<<"C">>),
                     error |-> PyBool(FALSE)])

\* the entries of a JSON list payload: objects, a number, a nested list
Entries == {ItemA, ItemB, ItemBad, ItemTitle, ItemMail, ItemNoName,
            ItemErrZero, PyInt(1), PyList(<<ItemB>>)}

\* the JSON lists of up to MaxEntries entries
EntryLists == UNION {[1..n -> Entries] : n \in 0..MaxEntries}

\* the JSON objects given as a payload that is a single object
Objects == {ItemA, ItemB, ItemBad, ItemTitle, ItemMail, ItemNoName,
            ItemErrText, ItemErrZero, ItemErrNull, ItemErrTrue, ItemStory}

\* payloads that are absent, empty, not JSON, or JSON of the wrong shape
BadPayloads == {PyNone, EmptyText, NotJson, RawText(PyNone),
                RawText(PyInt(5)), RawText(PyInt(0)),
                RawText(PyStr(<<"a">>)), RawText(PyBool(TRUE)),
                RawText(PyList(<<PyInt(1), PyList(<<ItemB>>)>>))}

ValidatorPayloads ==
    {RawText(PyList(l)) : l \in EntryLists}
    \cup {RawText(o) : o \in Objects}
    \cup BadPayloads

\* contents and indicator arguments of check_no_results_llm
DetectContents == {<<>>, TxtItems, TxtNoRes, TxtNada, TxtZero}
DetectIndicators == {PyNone, PyList(<<>>), PyList(<<Nada>>),
                     PyList(<<Ind2, PhraseB>>), PyList(<<<<>>>>)}

\* base URLs of PageUrl
PageBases == {UrlList, UrlCat, UrlListQ, UrlTwoQ}

\* URLs of detect_content_type
ClassifyUrls == {UrlList, UrlCat, UrlProduct, UrlProductLast, UrlProducts,
                 UrlProductQuery, UrlProductUpper, UrlArticle, UrlArticleLast,
                 UrlBoth, UrlArticleFragment, UrlProductHost, <<>>}

\* the scraper was constructed and nothing was called yet
FnInit ==
    /\ pc = "new"
    /\ crawler = FALSE
    /\ api_key = TRUE
    /\ self_url = UrlList
    /\ base_url = <<>>
    /\ max_pages = 0
    /\ use_llm = FALSE
    /\ content_type = NoTag
    /\ follow_links = FALSE
    /\ max_links_per_page = 0
    /\ page_number = 1
    /\ all_items = <<>>
    /\ original_url = <<>>
    /\ items = <<>>
    /\ item_idx = 1
    /\ enhanced_items = <<>>
    /\ enhanced_item = PyNone
    /\ links_to_follow = <<>>
    /\ link_idx = 1
    /\ link_original_url = <<>>
    /\ result = NoResult
    /\ stop_reason = "none"
    /\ page_log = <<>>
    /\ fetch_log = <<>>
    /\ fn = NoCall
    /\ fn_value = NoCall

\* process_llm_extracted_data(raw, tag)
CallValidate ==
    /\ fn = NoCall
    /\ \E raw \in ValidatorPayloads, tag \in ContentTypes :
         /\ fn' = [name |-> "process_llm_extracted_data", raw |-> raw,
                   tag |-> tag]
         /\ fn_value' = process_llm_extracted_data(raw, tag)
    /\ UNCHANGED machine

\* check_no_results_llm(content, indicators)
CallDetect ==
    /\ fn = NoCall
    /\ \E content \in DetectContents, indicators \in DetectIndicators :
         /\ fn' = [name |-> "check_no_results_llm", content |-> content,
                   indicators |-> indicators]
         /\ fn_value' = check_no_results_llm(content, indicators)
    /\ UNCHANGED machine

\* the URL scrape_with_pagination builds for page n of base
CallPageUrl ==
    /\ fn = NoCall
    /\ \E base \in PageBases, n \in 1..MaxPageNumber :
         /\ fn' = [name |-> "page_url", base |-> base, n |-> n]
         /\ fn_value' = PageUrl(base, n)
    /\ UNCHANGED machine

\* BaseScraper(url).detect_content_type()
CallClassify ==
    /\ fn = NoCall
    /\ \E url \in ClassifyUrls :
         /\ fn' = [name |-> "detect_content_type", url |-> url]
         /\ fn_value' = detect_content_type(url)
    /\ UNCHANGED machine

\* scrape(use_llm=True, content_type=tag) inside "async with", crawler.arun
\* succeeding with the payload raw
CallScrape ==
    /\ fn = NoCall
    /\ \E raw \in BadPayloads \cup {PayloadList, PayloadObject},
          tag \in Tags, key \in BOOLEAN :
         /\ fn' = [name |-> "scrape", raw |-> raw, tag |-> tag, key |-> key]
         /\ fn_value' = scrape(self_url, TRUE, TRUE, tag, key,
                               ArunResult(TRUE, PyStr(TxtItems), raw, MetaD))
    /\ UNCHANGED machine

FnNext ==
    \/ CallValidate
    \/ CallDetect
    \/ CallPageUrl
    \/ CallClassify
    \/ CallScrape

FnSpec == FnInit /\ [][FnNext]_vars

(***************************************************************************)
(* Vocabulary of the properties.                                           *)
(***************************************************************************)
IsPageFetch(e) == e.kind = "page"
IsLinkFetch(e) == e.kind = "link"

\* the page numbers scrape was called for, in call order
PagesFetched ==
    LET calls == SelectSeq(fetch_log, IsPageFetch)
    IN [i \in 1..Len(calls) |-> calls[i].page]

\* the numbers 1..n in ascending order
UpTo(n) == [i \in 1..n |-> i]

\* s contains one of the default no-results phrases, whatever the case
LowerIndicators ==
    [k \in 1..Len(DefaultIndicators) |-> Lower(DefaultIndicators[k])]
HasNoResultsPhrase(s) ==
    \E k \in 1..Len(LowerIndicators) : Contains(Lower(s), LowerIndicators[k])

\* the page's content is non-empty and contains a no-results phrase
Flagged(e) ==
    e.content.t = "str" /\ e.content.s # <<>> /\ HasNoResultsPhrase(e.content.s)

\* the fetch of the page failed: arun raised or gave a non-success result
FetchFailed(e) == e.outcome \in {"raised", "failed"}

\* the concatenation, in page order, of what was aggregated for the first
\* n pages
RECURSIVE AggregateOf(_)
AggregateOf(n) ==
    IF n = 0 THEN <<>> ELSE AggregateOf(n - 1) \o page_log[n].aggregated

\* the calls of scrape for a link, in call order
LinkFetches == SelectSeq(fetch_log, IsLinkFetch)

\* the returns of scrape for a link, in order
IsLinkDone(e) == e.kind = "link_done"
LinksDone == SelectSeq(fetch_log, IsLinkDone)

\* the URLs fetched for record k of page p, in call order
FetchedFor(p, k) ==
    LET calls == SelectSeq(LinkFetches, LAMBDA e : e.page = p /\ e.item = k)
    IN [i \in 1..Len(calls) |-> calls[i].url]

\* the URLs of the entries of a record's extracted_from_links
AttachedUrls(item) ==
    LET entries == item.d["extracted_from_links"].l
    IN {entries[i].d["url"].s : i \in 1..Len(entries)}

\* _extract_from_links is running for the last page of page_log
Expanding == pc \in {"link", "link_await", "sleep"}

(***************************************************************************)
(* C1: with max_pages = N >= 1 and no page triggering a no-results,        *)
(* fetch-error or empty-page stop, a finished run has fetched exactly the  *)
(* pages 1..N, each once and in order, and left the loop at the page       *)
(* limit; at any time the pages fetched so far are 1..k in order.          *)
(***************************************************************************)
NoStopTriggered ==
    \A k \in 1..Len(page_log) :
        /\ page_log[k].outcome = "ok"
        /\ ~Flagged(page_log[k])
        /\ use_llm => page_log[k].records # <<>>

C1_MaxPagesTerminal ==
    /\ PagesFetched = UpTo(Len(PagesFetched))
    /\ (pc = "done" /\ max_pages >= 1 /\ NoStopTriggered)
         => /\ PagesFetched = UpTo(max_pages)
            /\ stop_reason = "max_pages_reached"

C1_Witness ==
    /\ pc = "done" /\ max_pages = 2 /\ use_llm /\ NoStopTriggered
    /\ Len(page_log) = 2

(***************************************************************************)
(* C2: a page k whose content is non-empty and contains a no-results       *)
(* phrase ends the run at page k: it is the last page fetched, the run has *)
(* returned, and nothing of page k was aggregated, even when page k gave   *)
(* valid records.                                                          *)
(***************************************************************************)
C2_NoResultsStops ==
    \A k \in 1..Len(page_log) :
        Flagged(page_log[k]) =>
            /\ k = Len(page_log)
            /\ pc = "done"
            /\ stop_reason = "no_results_detected"
            /\ PagesFetched = UpTo(k)
            /\ page_log[k].aggregated = <<>>
            /\ all_items = AggregateOf(k - 1)
            /\ result = Returned(AggregateOf(k - 1))

C2_Witness ==
    /\ Len(page_log) = 2
    /\ Flagged(page_log[2])
    /\ page_log[2].records # <<>>
    /\ all_items # <<>>

(***************************************************************************)
(* C3: whenever the fetch of page k fails (arun raises or gives a          *)
(* non-success result), the run stops at page k, whatever use_llm is.      *)
(***************************************************************************)
C3_FetchFailureStops ==
    \A k \in 1..Len(page_log) :
        FetchFailed(page_log[k]) => (k = Len(page_log) /\ pc = "done")

(***************************************************************************)
(* C4: with use_llm set, a page k that was fetched, is not flagged by the  *)
(* no-results detector and yields no records ends the run at page k.       *)
(***************************************************************************)
C4_LlmEmptyPageStops ==
    use_llm =>
        \A k \in 1..Len(page_log) :
            (/\ page_log[k].outcome = "ok"
             /\ ~Flagged(page_log[k])
             /\ page_log[k].records = <<>>)
            => /\ k = Len(page_log)
               /\ pc = "done"
               /\ stop_reason = "empty_page"
               /\ PagesFetched = UpTo(k)

C4_Witness ==
    /\ use_llm /\ api_key /\ pc = "done"
    /\ Len(page_log) = 2
    /\ page_log[2].outcome = "ok"
    /\ ~Flagged(page_log[2])
    /\ page_log[2].payload # PyNone
    /\ page_log[2].records = <<>>

(***************************************************************************)
(* C5: with use_llm not set, a fetched page k without records (and not     *)
(* flagged) does not stop the run: page_number becomes k + 1 and, if       *)
(* k < max_pages, the next fetch is page k + 1; the loop is only left by a *)
(* no-results detection, a fetch error or the page limit.                  *)
(***************************************************************************)
C5_NonLlmEmptyPageContinues ==
    ~use_llm =>
        /\ stop_reason \in {"none", "no_results_detected", "fetch_error",
                            "max_pages_reached"}
        /\ \A k \in 1..Len(page_log) :
             (/\ page_log[k].outcome = "ok"
              /\ ~Flagged(page_log[k])
              /\ page_log[k].records = <<>>)
             => /\ page_number > k
                /\ k < max_pages =>
                     \/ Len(PagesFetched) > k /\ PagesFetched[k + 1] = k + 1
                     \/ pc = "loop" /\ page_number = k + 1

C5_Witness ==
    /\ ~use_llm /\ max_pages = 2
    /\ Len(page_log) = 2
    /\ page_log[1].outcome = "ok"
    /\ page_log[1].payload # PyNone
    /\ page_log[1].records = <<>>
    /\ ~Flagged(page_log[1])

(***************************************************************************)
(* C6: at every moment, and when the run returns whatever ended it, the    *)
(* aggregate is the concatenation in page order of what was aggregated for *)
(* each page, which for a page is nothing or the page's records in their   *)
(* order (each with its extracted_from_links when links were followed).    *)
(***************************************************************************)
\* the record an aggregated item was made from
WithoutLinks(item) ==
    IF follow_links /\ max_links_per_page > 0
    THEN Pop(item, "extracted_from_links") ELSE item

AggregatedFromRecords(e) ==
    \/ e.aggregated = <<>>
    \/ /\ Len(e.aggregated) = Len(e.records)
       /\ \A i \in 1..Len(e.records) :
            WithoutLinks(e.aggregated[i]) = e.records[i]

C6_AggregateIsConcatenation ==
    /\ all_items = AggregateOf(Len(page_log))
    /\ \A k \in 1..Len(page_log) :
         /\ page_log[k].page = k
         /\ AggregatedFromRecords(page_log[k])
    /\ pc = "done" => result = Returned(AggregateOf(Len(page_log)))

C6_Witness ==
    /\ pc = "done"
    /\ stop_reason = "empty_page"
    /\ Len(page_log) = 2
    /\ FetchFailed(page_log[2])
    /\ Len(all_items) = 2
    /\ follow_links /\ LinkFetches # <<>>

PageLimit == IF max_pages > 0 THEN max_pages ELSE 0

(***************************************************************************)
(* C8 as stated: while the crawler is not initialized, no scrape returns a *)
(* page and no run that asks for a page returns a result.                  *)
(***************************************************************************)
C8_UninitializedIsHardFailure ==
    /\ page_log # <<>> => crawler
    /\ (pc = "done" /\ max_pages >= 1 /\ result.kind = "returned") => crawler

(***************************************************************************)
(* C8 as amended: a failure of __aenter__ is raised to its caller before   *)
(* anything is fetched; a run requested while the crawler is not           *)
(* initialized raises nothing: every scrape gives a page without content   *)
(* and records, link fetches are never issued, and the run returns the     *)
(* empty aggregate (after one page with use_llm, after max_pages pages     *)
(* without).                                                               *)
(***************************************************************************)
C8_UninitializedReturnsEmpty ==
    /\ pc = "init_failed" => (result = Raised /\ fetch_log = <<>>)
    /\ (~crawler /\ pc # "init_failed") =>
         /\ result.kind # "raised"
         /\ all_items = <<>>
         /\ LinkFetches = <<>>
         /\ \A k \in 1..Len(page_log) :
              /\ page_log[k].outcome = "uninit"
              /\ page_log[k].content = PyNone
              /\ page_log[k].records = <<>>
         /\ use_llm => Len(page_log) <= 1
         /\ pc = "done" =>
              /\ result = Returned(<<>>)
              /\ Len(page_log) = IF use_llm /\ max_pages >= 1 THEN 1
                                 ELSE PageLimit

C8_Witness ==
    /\ ~crawler /\ pc = "done" /\ ~use_llm
    /\ Len(page_log) = 2
    /\ result = Returned(<<>>)

(***************************************************************************)
(* C9 as stated: a finished run reports, with the aggregate, one stop      *)
(* reason out of the four, naming the condition that ended the loop.       *)
(***************************************************************************)
StopReasons ==
    {"max_pages_reached", "no_results_detected", "fetch_error", "empty_page"}

\* the reason carried by the value the caller got
ReportedReason ==
    IF "reason" \in DOMAIN result THEN result.reason ELSE "none"

\* the condition that ended the loop, from what the pages did
ActualCondition ==
    IF page_log # <<>> /\ page_number = Len(page_log)
    THEN LET last == page_log[Len(page_log)]
         IN IF FetchFailed(last) THEN "fetch_error"
            ELSE IF Flagged(last) THEN "no_results_detected"
            ELSE "empty_page"
    ELSE "max_pages_reached"

C10_UrlRestored ==
    /\ pc \in {"new", "ready", "init_failed", "loop", "done", "raised"}
         => self_url = UrlList
    /\ pc \in {"page", "link", "link_await", "sleep"} =>
         /\ original_url = UrlList
         /\ self_url # UrlList
    /\ pc \in {"page", "link", "sleep"} =>
         self_url = PageUrl(base_url, page_number)

C10_Witness ==
    /\ pc = "done"
    /\ stop_reason = "no_results_detected"
    /\ Len(page_log) = 2
    /\ LinkFetches # <<>>
    /\ \E i \in 1..Len(fetch_log) :
         fetch_log[i].kind = "link_done" /\ fetch_log[i].outcome = "raised"
    /\ self_url = UrlList

(***************************************************************************)
(* C11: after each link has been processed, its fetch having succeeded or  *)
(* failed, self.url is the URL that was in effect right before the link    *)
(* was processed (the URL of the page being expanded), not the link's.     *)
(***************************************************************************)
C11_LinkUrlRestored ==
    /\ \A i \in 1..Len(LinksDone) :
         /\ LinksDone[i].url_after = LinksDone[i].url_before
         /\ LinksDone[i].url_before = PageUrl(base_url, LinksDone[i].page)
         /\ LinksDone[i].url_before # LinksDone[i].url
    /\ pc = "link_await" => self_url = links_to_follow[link_idx]
    /\ pc = "sleep" =>
         /\ self_url = link_original_url
         /\ self_url = LinksDone[Len(LinksDone)].url_before

C11_Witness ==
    /\ pc = "sleep"
    /\ LinksDone[Len(LinksDone)].outcome = "raised"
    /\ \E i \in 1..Len(LinksDone) : LinksDone[i].outcome = "ok"

(***************************************************************************)
(* C12: for every record of a page, whatever repeats its link list has,    *)
(* no URL is fetched twice for the record, and the number of links fetched *)
(* for the record is at most max_links_per_page.                           *)
(***************************************************************************)
C12_LinksOncePerRecord ==
    \A p \in 1..Len(page_log) :
        \A k \in 1..Len(page_log[p].records) :
            LET urls == FetchedFor(p, k)
            IN /\ \A i, j \in 1..Len(urls) : i # j => urls[i] # urls[j]
               /\ Len(urls) <= max_links_per_page

C12_Witness ==
    /\ max_links_per_page = 2
    /\ FetchedFor(1, 1) = <<LinkA, LinkB>>
    /\ page_log[1].records[1] = ItemA
    /\ page_log[1].aggregated # <<>>

(***************************************************************************)
(* C13: a link whose fetch or extraction failed is skipped: no entry for   *)
(* it is in the record's extracted_from_links; and the remaining links of  *)
(* the record and the remaining records of the page are still processed:   *)
(* when the page is aggregated, the links fetched for each record are the  *)
(* links selected for it.                                                  *)
(***************************************************************************)
C13_FailedLinkSkipped ==
    /\ \A i \in 1..Len(LinksDone) :
         LinksDone[i].outcome # "ok" =>
            LET e == page_log[LinksDone[i].page]
            IN /\ (pc = "sleep" /\ i = Len(LinksDone)) =>
                     LinksDone[i].url \notin AttachedUrls(enhanced_item)
               /\ e.aggregated # <<>> =>
                     LinksDone[i].url \notin
                         AttachedUrls(e.aggregated[LinksDone[i].item])
    /\ \A p \in 1..Len(page_log) :
         (page_log[p].expand = "new" /\ page_log[p].aggregated # <<>>) =>
            \A k \in 1..Len(page_log[p].records) :
                FetchedFor(p, k) =
                    LinksToFollow(page_log[p].records[k], max_links_per_page)

(***************************************************************************)
(* C14 as stated: whenever _extract_from_links was called for a page, its  *)
(* input list and input records are unchanged, the list it returned is a   *)
(* new list, and each returned record is its input record plus the field   *)
(* extracted_from_links.                                                   *)
(***************************************************************************)
\* the record out is the record in with extracted_from_links added
PlusLinksField(out, in) ==
    /\ "extracted_from_links" \in DOMAIN out.d
    /\ out.d["extracted_from_links"].t = "list"
    /\ Pop(out, "extracted_from_links") = Pop(in, "extracted_from_links")

\* while the expander runs, its input is the list it was given
InputUnchanged ==
    /\ Expanding => items = page_log[Len(page_log)].records
    /\ \A p \in 1..Len(page_log) :
         page_log[p].expand = "input" =>
             page_log[p].aggregated = page_log[p].records

C14_ExpandNeverReturnsInput ==
    /\ InputUnchanged
    /\ \A p \in 1..Len(page_log) :
         (page_log[p].expand # "none" /\ (p < Len(page_log) \/ ~Expanding)) =>
            /\ page_log[p].expand = "new"
            /\ Len(page_log[p].aggregated) = Len(page_log[p].records)
            /\ \A k \in 1..Len(page_log[p].records) :
                 PlusLinksField(page_log[p].aggregated[k],
                                page_log[p].records[k])

(***************************************************************************)
(* C14 as amended: _extract_from_links never modifies its input list or    *)
(* the records in it.  Called with max_links_per_page > 0 (and a non-empty *)
(* list) it returns a new list whose k-th record is a copy of the k-th     *)
(* input record with the field extracted_from_links set; called with       *)
(* max_links_per_page <= 0 it returns the input list itself, and no record *)
(* gets the field.                                                         *)
(***************************************************************************)
C14_ExpandCopiesOrReturnsInput ==
    /\ InputUnchanged
    /\ \A p \in 1..Len(page_log) :
         /\ page_log[p].expand = "new" <=>
                (follow_links /\ max_links_per_page > 0
                 /\ page_log[p].records # <<>> /\ ~Flagged(page_log[p]))
         /\ page_log[p].expand = "input" <=>
                (follow_links /\ max_links_per_page <= 0
                 /\ page_log[p].records # <<>> /\ ~Flagged(page_log[p]))
         /\ (page_log[p].expand = "new" /\ (p < Len(page_log) \/ ~Expanding)) =>
                /\ Len(page_log[p].aggregated) = Len(page_log[p].records)
                /\ \A k \in 1..Len(page_log[p].records) :
                     PlusLinksField(page_log[p].aggregated[k],
                                    page_log[p].records[k])
         /\ page_log[p].expand = "input" =>
                \A k \in 1..Len(page_log[p].aggregated) :
                    "extracted_from_links" \notin DOMAIN page_log[p].aggregated[k].d

C14_Witness ==
    /\ pc = "done"
    /\ Len(page_log) = 2
    /\ page_log[1].expand = "new"
    /\ \E k \in 1..Len(page_log[1].aggregated) :
         Len(page_log[1].aggregated[k].d["extracted_from_links"].l) = 2

(***************************************************************************)
(* Vocabulary of the properties of the functions called on their own.      *)
(***************************************************************************)
Called(name) == fn.name = name

\* the payload of the call parses to a JSON value of the given type
ParsesTo(type) ==
    /\ fn.raw.t = "text"
    /\ ~fn.raw.empty
    /\ fn.raw.parsed.t = type

\* the field is present in the object and its value is not empty
NonEmpty(item, field) ==
    /\ field \in DOMAIN item.d
    /\ item.d[field] \notin {PyNone, PyStr(<<>>), PyInt(0), PyBool(FALSE),
                             PyList(<<>>)}

\* the validity predicate of a tag
ValidFor(tag, item) ==
    CASE tag = "article" -> NonEmpty(item, "title") /\ NonEmpty(item, "content")
      [] tag = "product" -> NonEmpty(item, "name")
      [] tag = "profile" ->
            NonEmpty(item, "name") \/ NonEmpty(item, "email")
                \/ NonEmpty(item, "phone")
      [] tag \in {"listing", "unknown"} ->
            NonEmpty(item, "title") \/ NonEmpty(item, "description")
                \/ NonEmpty(item, "content") \/ NonEmpty(item, "name")

\* the object without its error field when that field is the boolean false
WithoutFalseError(item) ==
    IF "error" \in DOMAIN item.d /\ item.d["error"] = PyBool(FALSE)
    THEN PyDict([k \in (DOMAIN item.d) \ {"error"} |-> item.d[k]])
    ELSE item

\* two characters are the same letter, whatever their case
SameLetter(a, b) ==
    \/ a = b
    \/ a \in DOMAIN UpperToLower /\ UpperToLower[a] = b
    \/ b \in DOMAIN UpperToLower /\ UpperToLower[b] = a

\* the phrase occurs in the content as a case-insensitive substring
OccursIgnoringCase(content, phrase) ==
    \E i \in 0..(Len(content) - Len(phrase)) :
        \A j \in 1..Len(phrase) : SameLetter(content[i + j], phrase[j])

Min(S) == CHOOSE x \in S : \A y \in S : x <= y

(***************************************************************************)
(* C15: for a payload that parses to a list and any tag, the validator     *)
(* returns exactly the entries that are objects and satisfy the tag's      *)
(* validity predicate, in their original order, nothing reordered,         *)
(* duplicated or added (each object without a false-valued error field).   *)
(***************************************************************************)
C15_ValidatorKeepsValidInOrder ==
    (Called("process_llm_extracted_data") /\ ParsesTo("list")) =>
        LET entries == fn.raw.parsed.l
            kept == SelectSeq(entries,
                        LAMBDA e : e.t = "dict" /\ ValidFor(fn.tag, e))
        IN /\ ~fn_value.exc
           /\ fn_value.val = [i \in 1..Len(kept) |-> WithoutFalseError(kept[i])]

C15_Witness ==
    /\ Called("process_llm_extracted_data")
    /\ fn.raw = RawText(PyList(<<ItemA, ItemB>>))
    /\ fn.tag = "product"
    /\ fn_value.val = <<ItemA, PyDict([name |-> PyStr(<<"W","i","d","g","e","t">>)])>>

(***************************************************************************)
(* C16: for a payload that is a single JSON object satisfying the tag's    *)
(* validity predicate, the validator returns a list of one object, which   *)
(* has every field of the payload with its value, except that the field    *)
(* error is absent exactly when its value in the payload is the boolean    *)
(* false.                                                                  *)
(***************************************************************************)
C16_SingleObjectIntact ==
    (/\ Called("process_llm_extracted_data")
     /\ ParsesTo("dict")
     /\ ValidFor(fn.tag, fn.raw.parsed)) =>
        /\ ~fn_value.exc
        /\ Len(fn_value.val) = 1
        /\ LET given == fn.raw.parsed.d
               out == fn_value.val[1]
           IN /\ out.t = "dict"
              /\ DOMAIN out.d \subseteq DOMAIN given
              /\ \A k \in DOMAIN out.d : out.d[k] = given[k]
              /\ \A k \in (DOMAIN given) \ {"error"} : k \in DOMAIN out.d
              /\ "error" \in DOMAIN given =>
                    ("error" \in DOMAIN out.d <=> given["error"] # PyBool(FALSE))

C16_Witness ==
    /\ Called("process_llm_extracted_data")
    /\ fn.raw = RawText(ItemB)
    /\ fn.tag = "product"
    /\ fn_value.val = <<PyDict([name |-> PyStr(<<"W","i","d","g","e","t">>)])>>

(***************************************************************************)
(* C17: the validator never raises; for a payload that is absent, empty,   *)
(* not JSON, or JSON that is neither an object nor a list holding an       *)
(* object, it returns the empty list; and scrape, given a page whose       *)
(* payload is such, returns the page without structured data instead of    *)
(* failing.                                                                *)
(***************************************************************************)
\* the payload is absent, empty, not JSON or of the wrong shape
BadPayload(raw) ==
    \/ raw.t # "text"
    \/ raw.empty
    \/ raw.parsed.t \notin {"list", "dict"}
    \/ /\ raw.parsed.t = "list"
       /\ \A i \in 1..Len(raw.parsed.l) : raw.parsed.l[i].t # "dict"

C17_ValidatorNeverFails ==
    /\ Called("process_llm_extracted_data") =>
         /\ ~fn_value.exc
         /\ BadPayload(fn.raw) => fn_value.val = <<>>
    /\ Called("scrape") =>
         /\ ~fn_value.exc
         /\ BadPayload(fn.raw) =>
              /\ fn_value.val.structured_data = PyNone
              /\ fn_value.val.content = PyStr(TxtItems)
              /\ fn_value.val.title = PyStr(NoTitle)

C17_Witness ==
    /\ Called("scrape")
    /\ fn.raw = NotJson
    /\ fn.key
    /\ ~fn_value.exc
    /\ fn_value.val.structured_data = PyNone

(***************************************************************************)
(* C18 as stated: check_no_results_llm returns true exactly when a phrase  *)
(* of the effective list occurs in the content as a case-insensitive       *)
(* substring, the effective list being the caller's list whenever one is   *)
(* supplied and the eight default phrases otherwise; it returns false for  *)
(* empty content.                                                          *)
(***************************************************************************)
C18_DetectUsesSuppliedList ==
    Called("check_no_results_llm") =>
        LET effective == IF fn.indicators # PyNone THEN fn.indicators.l
                         ELSE DefaultIndicators
        IN /\ fn_value <=>
                \E k \in 1..Len(effective) :
                    OccursIgnoringCase(fn.content, effective[k])
           /\ fn.content = <<>> => ~fn_value

(***************************************************************************)
(* C18 as amended: it returns true exactly when a phrase of the effective  *)
(* list occurs in the content as a case-insensitive substring, the         *)
(* effective list being the caller's list when one is supplied and is not  *)
(* empty (it replaces the default phrases) and the eight default phrases   *)
(* when none is supplied or the supplied list is empty; for empty content  *)
(* it returns false unless the effective list holds the empty phrase.      *)
(***************************************************************************)
C18_DetectUsesNonEmptyList ==
    Called("check_no_results_llm") =>
        LET effective == IF fn.indicators # PyNone /\ fn.indicators.l # <<>>
                         THEN fn.indicators.l ELSE DefaultIndicators
        IN /\ fn_value <=>
                \E k \in 1..Len(effective) :
                    OccursIgnoringCase(fn.content, effective[k])
           /\ fn.content = <<>> =>
                (fn_value <=> \E k \in 1..Len(effective) : effective[k] = <<>>)

C18_Witness ==
    /\ Called("check_no_results_llm")
    /\ fn.content = TxtNoRes
    /\ fn.indicators = PyList(<<Nada>>)
    /\ ~fn_value

(***************************************************************************)
(* C19: the URL of page n is the base URL followed by "&page=" when the    *)
(* base URL contains a "?" and by "?page=" otherwise, followed by n in     *)
(* decimal: "https://x.com/list" page 2 gives "https://x.com/list?page=2", *)
(* "https://x.com/list?cat=a" page 3 "https://x.com/list?cat=a&page=3".    *)
(***************************************************************************)
IsDigit(c) == \E d \in 1..10 : Digits[d] = c
DigitValue(c) == (CHOOSE d \in 1..10 : Digits[d] = c) - 1

RECURSIVE DecimalValue(_)
DecimalValue(s) ==
    IF s = <<>> THEN 0
    ELSE 10 * DecimalValue(SubSeq(s, 1, Len(s) - 1)) + DigitValue(s[Len(s)])

C19_PageUrlFormat ==
    Called("page_url") =>
        LET base == fn.base
            url == fn_value
            number == SubSeq(url, Len(base) + 7, Len(url))
        IN /\ Len(url) > Len(base) + 6
           /\ SubSeq(url, 1, Len(base)) = base
           /\ url[Len(base) + 1] =
                 IF \E i \in 1..Len(base) : base[i] = "?" THEN "&" ELSE "?"
           /\ SubSeq(url, Len(base) + 2, Len(base) + 6) = <<"p","a","g","e","=">>
           /\ \A i \in 1..Len(number) : IsDigit(number[i])
           /\ number[1] # "0"
           /\ DecimalValue(number) = fn.n
           /\ (base = UrlList /\ fn.n = 2) => url = UrlListPage2
           /\ (base = UrlCat /\ fn.n = 3) => url = UrlCatPage3

C19_Witness ==
    /\ Called("page_url")
    /\ fn.base = UrlCat
    /\ fn.n = 3
    /\ fn_value = UrlCatPage3

(***************************************************************************)
(* C20 as stated: detect_content_type gives "product" when a segment of    *)
(* the URL's path equals "product", "article" when one equals "article",   *)
(* "unknown" otherwise, and depends on nothing outside the path.           *)
(***************************************************************************)
\* the path of a URL: from the first "/" after the authority up to the
\* query or fragment
AuthorityStart(url) ==
    LET marks == {i \in 1..(Len(url) - 2) :
                     SubSeq(url, i, i + 2) = <<":","/","/">>}
    IN IF marks = {} THEN 1 ELSE Min(marks) + 3
PathEnd(url) ==
    LET ends == {i \in AuthorityStart(url)..Len(url) : url[i] \in {"?", "#"}}
    IN IF ends = {} THEN Len(url) ELSE Min(ends) - 1
HasSegment(url, segment) ==
    \E i \in AuthorityStart(url)..PathEnd(url) :
        /\ url[i] = "/"
        /\ i + Len(segment) <= PathEnd(url)
        /\ SubSeq(url, i + 1, i + Len(segment)) = segment
        /\ (i + Len(segment) = PathEnd(url) \/ url[i + Len(segment) + 1] = "/")

SegmentProduct == <<"p","r","o","d","u","c","t">>
SegmentArticle == <<"a","r","t","i","c","l","e">>

C20_ClassifiesByPathSegment ==
    Called("detect_content_type") =>
        fn_value = IF HasSegment(fn.url, SegmentProduct) THEN "product"
                   ELSE IF HasSegment(fn.url, SegmentArticle) THEN "article"
                   ELSE "unknown"

(***************************************************************************)
(* C20 as amended: detect_content_type is a total function of the URL      *)
(* string: "product" when the text "/product/" occurs anywhere in the URL  *)
(* (host, path, query or fragment), whatever its case; otherwise "article" *)
(* when "/article/" does; "unknown" otherwise.                             *)
(***************************************************************************)
C20_ClassifiesBySubstring ==
    Called("detect_content_type") =>
        /\ fn_value \in {"product", "article", "unknown"}
        /\ fn_value = "product" <=>
              OccursIgnoringCase(fn.url, <<"/">> \o SegmentProduct \o <<"/">>)
        /\ fn_value = "article" <=>
              /\ ~OccursIgnoringCase(fn.url, <<"/">> \o SegmentProduct \o <<"/">>)
              /\ OccursIgnoringCase(fn.url, <<"/">> \o SegmentArticle \o <<"/">>)

C20_Witness ==
    /\ Called("detect_content_type")
    /\ fn.url = UrlProductQuery
    /\ fn_value = "product"

(***************************************************************************)
(* C21: in a run with use_llm set and GROQ_API_KEY not set, no fetch of    *)
(* the run is given an extraction strategy and no page yields records;     *)
(* nothing is raised to the caller of the run, and the run returns an      *)
(* empty aggregate.                                                        *)
(***************************************************************************)
C21_NoCredentialNoExtraction ==
    (use_llm /\ ~api_key) =>
        /\ \A k \in 1..Len(page_log) :
             /\ ~page_log[k].extraction.strategy.present
             /\ page_log[k].records = <<>>
        /\ \A i \in 1..Len(LinksDone) :
             ~LinksDone[i].extraction.strategy.present
        /\ pc # "raised"
        /\ result.kind = "raised" => pc = "init_failed"
        /\ all_items = <<>>
        /\ pc = "done" => result = Returned(<<>>)

C21_Witness ==
    /\ use_llm /\ ~api_key /\ crawler
    /\ content_type = "product"
    /\ pc = "done"
    /\ page_log # <<>>
    /\ page_log[1].outcome = "ok"
    /\ page_log[1].payload = PayloadList
    /\ result = Returned(<<>>)

(***************************************************************************)
(* C22: within one run, every page fetch and every link fetch is given the *)
(* same schema/instruction pair and the same tag for the validity          *)
(* predicate, both fixed by the content_type argument of the run (the      *)
(* generic pair and the tag "unknown" when there is none), whatever type   *)
(* is detected from the URL of a fetch.                                    *)
(***************************************************************************)
\* the extraction records of the fetches for which scrape called arun
FetchExtractions ==
    {page_log[k].extraction :
        k \in {j \in 1..Len(page_log) : page_log[j].outcome # "uninit"}}
    \cup {LinksDone[i].extraction : i \in 1..Len(LinksDone)}

C22_TagFixedForRun ==
    /\ Cardinality(FetchExtractions) <= 1
    /\ \A e \in FetchExtractions :
         /\ e.validity = IF content_type = NoTag THEN "unknown" ELSE content_type
         /\ e.strategy.present <=> (use_llm /\ api_key)
         /\ e.strategy.present =>
              <<e.strategy.schema, e.strategy.instruction>> =
                 CASE content_type = "product" ->
                        <<"ProductModel", "Extract product information">>
                   [] content_type = "article" ->
                        <<"ArticleModel", "Extract article information">>
                   [] OTHER ->
                        <<"GenericDataModel", "Extract all relevant information">>

C22_Witness ==
    /\ content_type = NoTag
    /\ Len(page_log) = 2
    /\ page_log[1].detected = "unknown"
    /\ page_log[1].extraction.strategy.present
    /\ \E i \in 1..Len(LinksDone) :
         /\ LinksDone[i].detected = "product"
         /\ LinksDone[i].extraction.validity = "unknown"

(***************************************************************************)
(* C23: a run that was called ends, provided each fetch returns; at every  *)
(* moment the pages fetched so far are 1..k in increasing order, each      *)
(* once, with k at most max_pages (k = 0 when max_pages is zero or         *)
(* negative: then nothing is fetched and the aggregate returned is empty). *)
(***************************************************************************)
C23_PagesInOrder ==
    /\ PagesFetched = UpTo(Len(PagesFetched))
    /\ Len(PagesFetched) <= PageLimit
    /\ max_pages <= 0 =>
         /\ fetch_log = <<>>
         /\ all_items = <<>>
         /\ pc = "done" => result = Returned(<<>>)

C23_RunTerminates ==
    /\ []C23_PagesInOrder
    /\ (pc = "loop") ~> (pc = "done")

C23_Witness ==
    /\ pc = "done"
    /\ max_pages = MaxPages
    /\ PagesFetched = UpTo(MaxPages)
    /\ LinkFetches # <<>>
    /\ all_items # <<>>

(***************************************************************************)
(* C24: the links fetched for a record are, in this order, the first       *)
(* max_links_per_page entries of its link list once only the non-empty     *)
(* strings that begin with http:// or https:// are kept and repeats are    *)
(* dropped after their first occurrence; the entries of the record's       *)
(* extracted_from_links are in the same order.                             *)
(***************************************************************************)
\* v is a non-empty string that begins with http:// or https://
IsHttpString(v) ==
    /\ v.t = "str"
    /\ v.s # <<>>
    /\ \/ (Len(v.s) >= 7 /\ SubSeq(v.s, 1, 7) = <<"h","t","t","p",":","/","/">>)
       \/ (Len(v.s) >= 8 /\ SubSeq(v.s, 1, 8) = <<"h","t","t","p","s",":","/","/">>)

\* the entries of s at the positions in keep, in the order of s
AtPositions(s, keep) ==
    [n \in 1..Cardinality(keep) |->
        s[CHOOSE i \in keep : Cardinality({j \in keep : j <= i}) = n]]

\* s without the entries that occurred earlier in s
FirstOccurrences(s) ==
    AtPositions(s, {i \in 1..Len(s) : \A j \in 1..(i - 1) : s[j] # s[i]})

\* the first n entries of s, all of s when it has fewer
FirstN(s, n) == [i \in 1..(IF Len(s) < n THEN Len(s) ELSE n) |-> s[i]]

\* the links the claim selects for a record
SelectedLinks(item) ==
    LET kept == SelectSeq(ItemLinks(item), IsHttpString)
    IN FirstN(FirstOccurrences([i \in 1..Len(kept) |-> kept[i].s]),
              max_links_per_page)

\* the URLs of the entries of a record's extracted_from_links, in order
AttachedUrlSeq(item) ==
    LET entries == item.d["extracted_from_links"].l
    IN [i \in 1..Len(entries) |-> entries[i].d["url"].s]

C24_LinksSelectedInOrder ==
    \A p \in 1..Len(page_log) :
        \A k \in 1..Len(page_log[p].records) :
            LET selected == SelectedLinks(page_log[p].records[k])
                fetched == FetchedFor(p, k)
            IN /\ Len(fetched) <= Len(selected)
               /\ fetched = SubSeq(selected, 1, Len(fetched))
               /\ (page_log[p].expand = "new" /\ page_log[p].aggregated # <<>>) =>
                     /\ fetched = selected
                     /\ AttachedUrlSeq(page_log[p].aggregated[k]) = selected
               /\ (p = Len(page_log) /\ Expanding /\ k = item_idx) =>
                     AttachedUrlSeq(enhanced_item) =
                        SubSeq(fetched, 1, Len(AttachedUrlSeq(enhanced_item)))

C24_Witness ==
    /\ max_links_per_page = 2
    /\ page_log # <<>>
    /\ page_log[1].records # <<>>
    /\ Len(ItemLinks(page_log[1].records[1])) = 7
    /\ page_log[1].expand = "new"
    /\ page_log[1].aggregated # <<>>
    /\ AttachedUrlSeq(page_log[1].aggregated[1]) = <<LinkA, LinkB>>

(***************************************************************************)
(* C25 as stated: whatever max_links_per_page is (0 included), when        *)
(* _extract_from_links has returned for a page, it returned as many        *)
(* records as it was given, in the same order, each carrying the field     *)
(* extracted_from_links; a record without a link to follow has the field   *)
(* empty and its other fields as they were.                                *)
(***************************************************************************)
\* _extract_from_links was called for page p and has returned
ExpandReturned(p) ==
    /\ page_log[p].expand # "none"
    /\ p < Len(page_log) \/ ~Expanding

\* the record has no link that could be followed
NoDiscoverableLinks(item) == SelectSeq(ItemLinks(item), IsHttpString) = <<>>

\* the records out are the records in, one for one and in the same order,
\* whatever their extracted_from_links
SameRecordsInOrder(out, in) ==
    /\ Len(out) = Len(in)
    /\ \A k \in 1..Len(in) :
         Pop(out[k], "extracted_from_links") = Pop(in[k], "extracted_from_links")

\* every record carries the field, empty when it has no link to follow
AllCarryLinksField(out, in) ==
    \A k \in 1..Len(out) :
        /\ "extracted_from_links" \in DOMAIN out[k].d
        /\ NoDiscoverableLinks(in[k]) =>
              out[k] = SetKey(in[k], "extracted_from_links", PyList(<<>>))

C25_EveryOutputCarriesField ==
    \A p \in 1..Len(page_log) :
        ExpandReturned(p) =>
            /\ SameRecordsInOrder(page_log[p].aggregated, page_log[p].records)
            /\ AllCarryLinksField(page_log[p].aggregated, page_log[p].records)

(***************************************************************************)
(* C25 as amended: when _extract_from_links has returned for a page, it    *)
(* returned as many records as it was given, in the same order.  Called    *)
(* with max_links_per_page > 0, every record it returned carries the field *)
(* extracted_from_links, empty for a record without a link to follow,      *)
(* whose other fields are as they were; called with max_links_per_page     *)
(* <= 0 it returned the records as they were given, without the field.     *)
(***************************************************************************)
C25_FieldOnlyWhenLinksAllowed ==
    \A p \in 1..Len(page_log) :
        ExpandReturned(p) =>
            /\ SameRecordsInOrder(page_log[p].aggregated, page_log[p].records)
            /\ max_links_per_page > 0 =>
                 AllCarryLinksField(page_log[p].aggregated, page_log[p].records)
            /\ max_links_per_page <= 0 =>
                 page_log[p].aggregated = page_log[p].records

C25_Witness ==
    /\ max_links_per_page > 0
    /\ page_log # <<>>
    /\ ExpandReturned(1)
    /\ Len(page_log[1].records) >= 2
    /\ \E k \in 1..Len(page_log[1].records) :
         /\ NoDiscoverableLinks(page_log[1].records[k])
         /\ page_log[1].aggregated[k].d["extracted_from_links"] = PyList(<<>>)
    /\ \E k \in 1..Len(page_log[1].records) :
         /\ ~NoDiscoverableLinks(page_log[1].records[k])
         /\ page_log[1].aggregated[k].d["extracted_from_links"] # PyList(<<>>)

(***************************************************************************)
(* C26: fetches are strictly sequential: a fetch that was issued returns   *)
(* before anything else is issued.  The link fetches of page k are issued  *)
(* and return after the fetch of page k has returned, before the fetch of  *)
(* page k + 1 is issued and before the records of page k are appended to   *)
(* the aggregate.  Without follow_links no link fetch is issued.           *)
(***************************************************************************)
\* entry i of fetch_log is the call of a fetch, entry j its return
IsCall(i) == fetch_log[i].kind \in {"page", "link"}
IsReturn(j) == fetch_log[j].kind \in {"page_done", "link_done"}
ReturnOf(i, j) ==
    /\ fetch_log[j].kind = (IF fetch_log[i].kind = "page" THEN "page_done"
                            ELSE "link_done")
    /\ fetch_log[j].page = fetch_log[i].page
    /\ fetch_log[j].url = fetch_log[i].url

\* a fetch is in flight exactly when its call is the last entry, and the
\* entry after a call is its return
OneFetchAtATime ==
    /\ \A i \in 1..Len(fetch_log) :
         /\ IsCall(i) =>
              IF i = Len(fetch_log) THEN pc \in {"page", "link_await"}
              ELSE ReturnOf(i, i + 1)
         /\ IsReturn(i) => (i > 1 /\ IsCall(i - 1) /\ ReturnOf(i - 1, i))
    /\ pc \in {"page", "link_await"} =>
         (fetch_log # <<>> /\ IsCall(Len(fetch_log)))

\* the call and the return of every link fetch of page k lie after the
\* return of the fetch of page k and before the call of any later page, at
\* a moment when the aggregate holds the records of the pages before k only
LinksWithinTheirPage ==
    \A i \in 1..Len(fetch_log) :
        fetch_log[i].kind \in {"link", "link_done"} =>
            LET k == fetch_log[i].page
            IN /\ \E j \in 1..(i - 1) :
                    fetch_log[j].kind = "page_done" /\ fetch_log[j].page = k
               /\ \A j \in 1..Len(fetch_log) :
                    fetch_log[j].kind \in {"page", "page_done"} =>
                        (j < i <=> fetch_log[j].page <= k)
               /\ k <= Len(page_log)
               /\ fetch_log[i].aggregate = Len(AggregateOf(k - 1))

C26_FetchesSequential ==
    /\ OneFetchAtATime
    /\ LinksWithinTheirPage
    /\ Expanding =>
         /\ page_log[Len(page_log)].aggregated = <<>>
         /\ all_items = AggregateOf(Len(page_log) - 1)
    /\ ~follow_links => LinkFetches = <<>>

C26_Witness ==
    /\ pc = "done"
    /\ Len(page_log) = 2
    /\ \E i \in 1..Len(LinksDone) : LinksDone[i].page = 1
    /\ \E i \in 1..Len(LinksDone) :
         LinksDone[i].page = 2 /\ LinksDone[i].aggregate > 0
    /\ Len(all_items) > Len(page_log[1].aggregated)

(***************************************************************************)
(* C27: between any two consecutive link fetches of a page, of one record  *)
(* or of two, there is a pause, always of the same length, whether the     *)
(* earlier of the two fetches succeeded or failed.                         *)
(***************************************************************************)
\* entries i < j of fetch_log are calls of link fetches of one page, with
\* no call of a link fetch between them
ConsecutiveLinkFetches(i, j) ==
    /\ i < j
    /\ fetch_log[i].kind = "link"
    /\ fetch_log[j].kind = "link"
    /\ fetch_log[i].page = fetch_log[j].page
    /\ \A m \in (i + 1)..(j - 1) : fetch_log[m].kind # "link"

C27_PauseBetweenLinkFetches ==
    /\ \A i, j \in 1..Len(fetch_log) :
         ConsecutiveLinkFetches(i, j) =>
            \E m \in (i + 1)..(j - 1) :
                /\ fetch_log[m].kind = "sleep"
                /\ fetch_log[m].seconds = PacingDelay
    /\ \A m \in 1..Len(fetch_log) :
         fetch_log[m].kind = "sleep" => fetch_log[m].seconds = 1

C27_Witness ==
    \E i, j, k \in 1..Len(fetch_log) :
        /\ ConsecutiveLinkFetches(i, j)
        /\ ConsecutiveLinkFetches(j, k)
        /\ fetch_log[i].item = fetch_log[j].item
        /\ fetch_log[j].item # fetch_log[k].item
        /\ fetch_log[i + 1].kind = "link_done"
        /\ fetch_log[i + 1].outcome = "ok"
        /\ fetch_log[j + 1].kind = "link_done"
        /\ fetch_log[j + 1].outcome = "raised"

(***************************************************************************)
(* C28: with use_llm false no page gives records, the aggregate is empty   *)
(* and no link is fetched, follow_links set or not; the run ends only at a *)
(* page with a no-results notice or at the page limit, whatever else the   *)
(* fetches did.                                                            *)
(***************************************************************************)
C28_NonLlmRunIsEmpty ==
    ~use_llm =>
        /\ \A k \in 1..Len(page_log) :
             /\ page_log[k].records = <<>>
             /\ page_log[k].expand = "none"
             /\ Flagged(page_log[k]) => (k = Len(page_log) /\ pc = "done")
        /\ all_items = <<>>
        /\ LinkFetches = <<>>
        /\ pc \notin {"raised", "link", "link_await", "sleep"}
        /\ pc = "done" =>
             /\ result = Returned(<<>>)
             /\ \/ /\ stop_reason = "no_results_detected"
                   /\ page_log # <<>>
                   /\ Flagged(page_log[Len(page_log)])
                \/ /\ stop_reason = "max_pages_reached"
                   /\ PagesFetched = UpTo(PageLimit)
                   /\ \A k \in 1..Len(page_log) : ~Flagged(page_log[k])

C28_Witness ==
    /\ ~use_llm /\ follow_links /\ api_key /\ crawler
    /\ max_links_per_page = MaxLinks
    /\ max_pages = 2
    /\ pc = "done"
    /\ Len(page_log) = 2
    /\ page_log[1].outcome = "ok"
    /\ page_log[1].payload = PayloadList
    /\ page_log[2].outcome = "raised"
    /\ stop_reason = "max_pages_reached"

(***************************************************************************)
(* C30: with use_llm set, max_pages >= 1 and no credential, a run fetches  *)
(* page 1 and nothing else, no link included, and returns the empty        *)
(* aggregate, whatever the page holds.                                     *)
(***************************************************************************)
C30_NoCredentialOnePage ==
    (use_llm /\ ~api_key /\ max_pages >= 1) =>
        /\ Len(PagesFetched) <= 1
        /\ LinkFetches = <<>>
        /\ all_items = <<>>
        /\ pc \in {"loop", "page"} => page_number = 1
        /\ pc = "done" =>
             /\ PagesFetched = <<1>>
             /\ Len(fetch_log) = 2
             /\ result = Returned(<<>>)
             /\ stop_reason \in {"empty_page", "no_results_detected"}

C30_Witness ==
    /\ use_llm /\ ~api_key /\ crawler /\ follow_links
    /\ content_type = NoTag
    /\ max_pages = MaxPages
    /\ max_links_per_page = MaxLinks
    /\ pc = "done"
    /\ PagesFetched = <<1>>
    /\ page_log[1].outcome = "ok"
    /\ page_log[1].content = PyStr(TxtItems)
    /\ page_log[1].payload = PayloadList
    /\ stop_reason = "empty_page"

(***************************************************************************)
(* C29: the dropping of repeated links and the max_links_per_page limit    *)
(* work record by record: a URL among the links selected for two records   *)
(* of a page is fetched once for each of them, and the link fetches of a   *)
(* page with R records number at most R * max_links_per_page, a number     *)
(* that is reached.                                                        *)
(***************************************************************************)
\* the calls of scrape for the links of page p, in call order
FetchesOfPage(p) == SelectSeq(LinkFetches, LAMBDA e : e.page = p)

\* how many times url was fetched as a link of page p
TimesFetched(p, url) ==
    Cardinality({i \in 1..Len(FetchesOfPage(p)) : FetchesOfPage(p)[i].url = url})

\* the records of page p whose selected links include url
RecordsSelecting(p, url) ==
    {k \in 1..Len(page_log[p].records) :
        \E i \in 1..Len(SelectedLinks(page_log[p].records[k])) :
            SelectedLinks(page_log[p].records[k])[i] = url}

====
